---- MODULE Spec2Model ----
(***************************************************************************)
(* Model of the mcp-atlassian gateway: the stdin/stdout transport loop     *)
(* (McpServer::run), the JSON-RPC router and session flag                  *)
(* (McpServer::process_request and its handlers), the tool registry and    *)
(* dispatcher (RequestHandler) and the response optimizer.                 *)
(***************************************************************************)
EXTENDS Integers, Sequences, FiniteSets, TLC

(***************************************************************************)
(* Bounds of the exploration.                                              *)
(***************************************************************************)
\* The exploration stops once this many lines have been written to stdout.
MaxOut == 2

\* The longest array in a JSON tree given to the optimizer.
MaxLen == 2

\* The number of optimize calls applied in a row to one value.
MaxPasses == 2

\* The longest of the short exclude lists an optimizer's list is compared with.
MaxNames == 3

\* The number of handler invocations that run concurrently.
MaxTasks == 3

(***************************************************************************)
(* Option<T> and Result<T, E>.                                             *)
(***************************************************************************)
None == <<>>
Some(v) == <<v>>
IsSome(o) == o # <<>>
IsNone(o) == o = <<>>

Ok(v) == [ok |-> TRUE, val |-> v]
Err(e) == [ok |-> FALSE, err |-> e]

(***************************************************************************)
(* serde_json::Value.  A string is either a literal or the text that       *)
(* serde_json::to_string_pretty produces for a value.  An object is a      *)
(* function from its keys to values; an absent key is a key outside the    *)
(* domain.  Each variant keeps its payload in a field of its own.          *)
(***************************************************************************)
JNull == [t |-> "null"]
JBool(b) == [t |-> "bool", b |-> b]
JNum(n) == [t |-> "num", n |-> n]
JStr(s) == [t |-> "str", s |-> s]
JArr(a) == [t |-> "arr", a |-> a]
JObj(o) == [t |-> "obj", o |-> o]
EmptyObj == JObj(<<>>)

\* serde_json::to_string_pretty(value): the text is determined by the value.
to_string_pretty(value) == [t |-> "str", pretty |-> value]

\* Value::as_str: Some(the string) for a string value, None otherwise.
as_str(value) == IF value.t = "str" THEN Some(value) ELSE None

\* Value's Index<&str>: the member of an object, Null for an absent key or
\* a value that is not an object.
Index(value, key) ==
    IF value.t = "obj" /\ key \in DOMAIN value.o THEN value.o[key] ELSE JNull

(***************************************************************************)
(* src/mcp/types.rs                                                        *)
(***************************************************************************)
PROTOCOL_VERSION == "2024-11-05"
PROTOCOL_VERSION_2025 == "2025-06-18"

PARSE_ERROR == -32700
INVALID_REQUEST == -32600
METHOD_NOT_FOUND == -32601
INVALID_PARAMS == -32602
INTERNAL_ERROR == -32603

\* Mutation of JsonRpcError::parse_error: the code is the invalid-request one.
parse_error_as_invalid_request ==
    [code |-> INVALID_REQUEST, message |-> "Parse error", data |-> None]

parse_error == [code |-> PARSE_ERROR, message |-> "Parse error", data |-> None]

invalid_request ==
    [code |-> INVALID_REQUEST, message |-> "Invalid request", data |-> None]

\* Mutation of JsonRpcError::method_not_found: the message leaves the method out.
method_not_found_unnamed(method) ==
    [code |-> METHOD_NOT_FOUND, message |-> "Method not found", data |-> None]

method_not_found(method) ==
    [code |-> METHOD_NOT_FOUND, message |-> "Method not found: " \o method,
     data |-> None]

invalid_params(message) ==
    [code |-> INVALID_PARAMS, message |-> message, data |-> None]

internal_error(message) ==
    [code |-> INTERNAL_ERROR, message |-> message, data |-> None]

\* JsonRpcResponse::success
JsonRpcResponse_success(id, result) ==
    [jsonrpc |-> "2.0", result |-> Some(result), error |-> None, id |-> id]

\* Mutation of JsonRpcResponse::error: the envelope carries a result as well.
JsonRpcResponse_error_both(id, error) ==
    [jsonrpc |-> "2.0", result |-> Some(JNull), error |-> Some(error), id |-> id]

\* JsonRpcResponse::error
JsonRpcResponse_error(id, error) ==
    [jsonrpc |-> "2.0", result |-> None, error |-> Some(error), id |-> id]

(***************************************************************************)
(* Deserialization of one input line.  A line is blank, text that is not   *)
(* JSON, or a JSON document.                                               *)
(***************************************************************************)
\* An Option<Value> member: an absent key and an explicit null both give None.
OptionField(obj, key) ==
    IF key \in DOMAIN obj /\ obj[key] # JNull THEN Some(obj[key]) ELSE None

\* A String member: present and a literal string.
HasString(obj, key) == key \in DOMAIN obj /\ obj[key].t = "str"

\* serde_json::from_str::<JsonRpcRequest>(input)
from_str_JsonRpcRequest(input) ==
    IF /\ input.kind = "json"
       /\ input.doc.t = "obj"
       /\ HasString(input.doc.o, "jsonrpc")
       /\ HasString(input.doc.o, "method")
    THEN Ok([jsonrpc |-> input.doc.o["jsonrpc"].s,
             method |-> input.doc.o["method"].s,
             params |-> OptionField(input.doc.o, "params"),
             id |-> OptionField(input.doc.o, "id")])
    ELSE Err("invalid JSON-RPC request")

\* serde_json::from_value::<CallToolRequest>(p): name is a String and
\* arguments a Value, both required.
from_value_CallToolRequest(p) ==
    IF p.t # "obj" THEN Err("invalid type: expected struct CallToolRequest")
    ELSE IF ~("name" \in DOMAIN p.o) THEN Err("missing field 'name'")
    ELSE IF p.o["name"].t # "str" THEN Err("invalid type: expected a string")
    ELSE IF ~("arguments" \in DOMAIN p.o) THEN Err("missing field 'arguments'")
    ELSE Ok([name |-> p.o["name"].s, arguments |-> p.o["arguments"]])

\* serde_json::from_value::<InitializeRequest>(params): protocol_version
\* (alias protocolVersion), capabilities and client_info (alias clientInfo)
\* are required.
from_value_InitializeRequest(p) ==
    IF /\ p.t = "obj"
       /\ (HasString(p.o, "protocolVersion") \/ HasString(p.o, "protocol_version"))
       /\ ~("protocolVersion" \in DOMAIN p.o /\ "protocol_version" \in DOMAIN p.o)
       /\ "capabilities" \in DOMAIN p.o /\ p.o["capabilities"].t = "obj"
       /\ \E k \in {"clientInfo", "client_info"} :
              /\ k \in DOMAIN p.o /\ p.o[k].t = "obj"
              /\ HasString(p.o[k].o, "name") /\ HasString(p.o[k].o, "version")
    THEN Ok([protocol_version |->
                 IF "protocolVersion" \in DOMAIN p.o
                 THEN p.o["protocolVersion"].s ELSE p.o["protocol_version"].s])
    ELSE Err("invalid initialize params")

(***************************************************************************)
(* src/tools/response_optimizer.rs                                         *)
(***************************************************************************)
DEFAULT_EXCLUDE_FIELDS ==
    << "avatarUrls", "iconUrl", "profilePicture", "icon", "self",
       "expand", "avatarId", "accountType", "projectTypeKey", "simplified",
       "_expandable", "childTypes", "macroRenderedOutput", "restrictions",
       "breadcrumbs", "entityType", "iconCssClass", "colorName", "hasScreen",
       "isAvailable", "isConditional", "isGlobal", "isInitial", "isLooped",
       "friendlyLastModified", "editui", "edituiv2" >>

\* The part of Config the gateway reads (src/config/mod.rs).
config == [response_exclude_fields |-> None]

\* Mutation of from_config: a configured list is added to the built-in table
\* instead of replacing it.
from_config_extends_defaults(cfg) ==
    [exclude_fields |-> IF IsSome(cfg.response_exclude_fields)
                        THEN DEFAULT_EXCLUDE_FIELDS \o cfg.response_exclude_fields[1]
                        ELSE DEFAULT_EXCLUDE_FIELDS,
     remove_empty_strings |-> TRUE]

\* ResponseOptimizer::from_config
from_config(cfg) ==
    [exclude_fields |-> IF IsSome(cfg.response_exclude_fields)
                        THEN cfg.response_exclude_fields[1]
                        ELSE DEFAULT_EXCLUDE_FIELDS,
     remove_empty_strings |-> TRUE]

\* Mutation of RemoveFields: the loop ends at the first name that is not a
\* key of the map.
RECURSIVE RemoveFields_until_miss(_, _, _)
RemoveFields_until_miss(keys, fields, i) ==
    IF i > Len(fields) \/ fields[i] \notin keys THEN keys
    ELSE RemoveFields_until_miss(keys \ {fields[i]}, fields, i + 1)

\* for field in &self.exclude_fields { map.remove(field); }
RECURSIVE RemoveFields(_, _, _)
RemoveFields(keys, fields, i) ==
    IF i > Len(fields) THEN keys
    ELSE RemoveFields(keys \ {fields[i]}, fields, i + 1)

\* Mutation of the retain predicate: a null counts as an empty string.
IsEmptyString_or_null(value) == value = JStr("") \/ value = JNull

\* Mutation of the retain predicate: no value counts as an empty string.
IsEmptyString_never(value) == FALSE

\* matches!(v, Value::String(s) if s.is_empty())
IsEmptyString(value) == value = JStr("")

\* Mutation of optimize_recursive: retain also drops the members that are
\* empty objects.
RECURSIVE optimize_recursive_prunes(_, _)
optimize_recursive_prunes(self, value) ==
    IF value.t = "obj" THEN
        LET kept == RemoveFields(DOMAIN value.o, self.exclude_fields, 1)
            retained == IF self.remove_empty_strings
                        THEN {k \in kept : /\ ~IsEmptyString(value.o[k])
                                           /\ value.o[k] # EmptyObj}
                        ELSE kept
        IN JObj([k \in retained |-> optimize_recursive_prunes(self, value.o[k])])
    ELSE IF value.t = "arr" THEN
        JArr([i \in 1..Len(value.a) |->
                 optimize_recursive_prunes(self, value.a[i])])
    ELSE value

\* Mutation of optimize_recursive: the empty strings of an array are dropped
\* like those of an object.
RECURSIVE optimize_recursive_filters_arrays(_, _)
optimize_recursive_filters_arrays(self, value) ==
    IF value.t = "obj" THEN
        LET kept == RemoveFields(DOMAIN value.o, self.exclude_fields, 1)
            retained == IF self.remove_empty_strings
                        THEN {k \in kept : ~IsEmptyString(value.o[k])}
                        ELSE kept
        IN JObj([k \in retained |->
                    optimize_recursive_filters_arrays(self, value.o[k])])
    ELSE IF value.t = "arr" THEN
        LET elements == SelectSeq(value.a, LAMBDA v : ~IsEmptyString(v))
        IN JArr([i \in 1..Len(elements) |->
                    optimize_recursive_filters_arrays(self, elements[i])])
    ELSE value

\* Mutation of optimize_recursive: the elements of an array are left alone.
RECURSIVE optimize_recursive_skips_arrays(_, _)
optimize_recursive_skips_arrays(self, value) ==
    IF value.t = "obj" THEN
        LET kept == RemoveFields(DOMAIN value.o, self.exclude_fields, 1)
            retained == IF self.remove_empty_strings
                        THEN {k \in kept : ~IsEmptyString(value.o[k])}
                        ELSE kept
        IN JObj([k \in retained |->
                    optimize_recursive_skips_arrays(self, value.o[k])])
    ELSE value

\* ResponseOptimizer::optimize_recursive
RECURSIVE optimize_recursive(_, _)
optimize_recursive(self, value) ==
    IF value.t = "obj" THEN
        LET kept == RemoveFields(DOMAIN value.o, self.exclude_fields, 1)
            retained == IF self.remove_empty_strings
                        THEN {k \in kept : ~IsEmptyString(value.o[k])}
                        ELSE kept
        IN JObj([k \in retained |-> optimize_recursive(self, value.o[k])])
    ELSE IF value.t = "arr" THEN
        JArr([i \in 1..Len(value.a) |-> optimize_recursive(self, value.a[i])])
    ELSE value

\* ResponseOptimizer::optimize: the value after the in-place pass; never Err.
optimize(self, value) == Ok(optimize_recursive(self, value))

(***************************************************************************)
(* src/tools/jira/mod.rs: the handlers' execute.  The Backend Operation is *)
(* the HTTP exchange; its outcome b is chosen by the environment:          *)
(* b.send is "ok" or "error", b.status the status line, b.body the JSON   *)
(* of the body and b.text its raw text.                                    *)
(***************************************************************************)
StatusIsSuccess(b) == b.status = "200 OK"

\* GetIssueHandler::execute
GetIssueHandler_execute(args, b) ==
    IF IsNone(as_str(Index(args, "issue_key")))
    THEN [ret |-> Err("Missing issue_key"), ev |-> {"execute"}]
    ELSE IF b.send # "ok"
    THEN [ret |-> Err("error sending request"), ev |-> {"execute", "backend"}]
    ELSE IF ~StatusIsSuccess(b)
    THEN [ret |-> Err("Failed to get issue: " \o b.status),
          ev |-> {"execute", "backend"}]
    ELSE [ret |-> Ok(JObj([success |-> JBool(TRUE), issue |-> b.body])),
          ev |-> {"execute", "backend"}]

\* UpdateIssueHandler::execute
UpdateIssueHandler_execute(args, b) ==
    IF IsNone(as_str(Index(args, "issue_key")))
    THEN [ret |-> Err("Missing issue_key"), ev |-> {"execute"}]
    ELSE IF b.send # "ok"
    THEN [ret |-> Err("error sending request"), ev |-> {"execute", "backend"}]
    ELSE IF ~StatusIsSuccess(b)
    THEN [ret |-> Err("Failed to update issue: " \o b.status),
          ev |-> {"execute", "backend"}]
    ELSE [ret |-> Ok(JObj([success |-> JBool(TRUE),
                           message |-> JStr("Issue " \o
                               Index(args, "issue_key").s \o " updated")])),
          ev |-> {"execute", "backend"}]

\* CreateIssueHandler::execute: the arguments are copied into the request
\* body without being checked.
CreateIssueHandler_execute(args, b) ==
    IF b.send # "ok"
    THEN [ret |-> Err("error sending request"), ev |-> {"execute", "backend"}]
    ELSE IF ~StatusIsSuccess(b)
    THEN [ret |-> Err("Failed to create issue: " \o b.text),
          ev |-> {"execute", "backend"}]
    ELSE [ret |-> Ok(JObj([success |-> JBool(TRUE), issue |-> b.body])),
          ev |-> {"execute", "backend"}]

\* AddCommentHandler::execute
AddCommentHandler_execute(args, b) ==
    IF IsNone(as_str(Index(args, "issue_key")))
    THEN [ret |-> Err("Missing issue_key"), ev |-> {"execute"}]
    ELSE IF IsNone(as_str(Index(args, "comment")))
    THEN [ret |-> Err("Missing comment"), ev |-> {"execute"}]
    ELSE IF b.send # "ok"
    THEN [ret |-> Err("error sending request"), ev |-> {"execute", "backend"}]
    ELSE IF ~StatusIsSuccess(b)
    THEN [ret |-> Err("Failed to add comment: " \o b.status),
          ev |-> {"execute", "backend"}]
    ELSE [ret |-> Ok(JObj([success |-> JBool(TRUE), comment |-> b.body])),
          ev |-> {"execute", "backend"}]

(***************************************************************************)
(* src/mcp/handlers.rs                                                     *)
(***************************************************************************)
\* The keys RequestHandler::new inserts into the registry.
\* Mutation of RegisteredTools: a handler is registered under a name that
\* tool_to_mcp_tool has no arm for.
RegisteredTools_with_unmapped ==
    { "jira_get_issue", "jira_search", "jira_create_issue",
      "jira_update_issue", "jira_add_comment", "jira_update_comment",
      "jira_transition_issue", "jira_get_transitions",
      "confluence_search", "confluence_get_page",
      "confluence_get_page_children", "confluence_get_comments",
      "confluence_create_page", "confluence_update_page",
      "jira_delete_issue" }

RegisteredTools ==
    { "jira_get_issue", "jira_search", "jira_create_issue",
      "jira_update_issue", "jira_add_comment", "jira_update_comment",
      "jira_transition_issue", "jira_get_transitions",
      "confluence_search", "confluence_get_page",
      "confluence_get_page_children", "confluence_get_comments",
      "confluence_create_page", "confluence_update_page" }

\* tool.execute(arguments, config) through the registry's trait object, for
\* the tools whose handlers are modelled.
execute(name, args, b) ==
    CASE name = "jira_get_issue" -> GetIssueHandler_execute(args, b)
      [] name = "jira_create_issue" -> CreateIssueHandler_execute(args, b)
      [] name = "jira_update_issue" -> UpdateIssueHandler_execute(args, b)
      [] name = "jira_add_comment" -> AddCommentHandler_execute(args, b)

\* Mutation of is_get_operation: every registered tool is optimized.
is_get_operation_every_tool(name) == name \in RegisteredTools

\* matches!(name, "jira_get_issue" | ...)
is_get_operation(name) ==
    name \in { "jira_get_issue", "jira_search", "jira_get_transitions",
               "confluence_search", "confluence_get_page",
               "confluence_get_page_children", "confluence_get_comments" }

\* serde_json::to_value(CallToolResult { content: vec![ToolContent::Text { text }] })
to_value_CallToolResult(text) ==
    JObj([content |-> JArr(<< JObj([type |-> JStr("text"), text |-> text]) >>)])

\* Mutation of CallToolContent: a string result is pretty-printed like any
\* other value.
CallToolContent_always_pretty(result) ==
    to_value_CallToolResult(to_string_pretty(result))

\* call_tool: "Convert result to tool content"
CallToolContent(result) ==
    to_value_CallToolResult(IF IsSome(as_str(result)) THEN as_str(result)[1]
                            ELSE to_string_pretty(result))

\* Mutation of call_tool: a name that is not in the registry is reported in
\* the content of a successful result instead of failing the call.
call_tool_unknown_ok(name, arguments, b) ==
    IF name \notin RegisteredTools
    THEN [ret |-> Ok(to_value_CallToolResult(JStr("Tool not found: " \o name))),
          ev |-> {"lookup"}]
    ELSE
      LET r == execute(name, arguments, b) IN
      IF ~r.ret.ok
      THEN [ret |-> Err(r.ret.err), ev |-> {"lookup"} \cup r.ev]
      ELSE
        LET o == optimize(from_config(config), r.ret.val)
            result == IF is_get_operation(name) /\ o.ok THEN o.val
                      ELSE r.ret.val
            text == IF IsSome(as_str(result)) THEN as_str(result)[1]
                    ELSE to_string_pretty(result)
        IN [ret |-> Ok(to_value_CallToolResult(text)),
            ev |-> {"lookup"} \cup r.ev]

\* RequestHandler::call_tool; the optimizer is the one built in new().
call_tool(name, arguments, b) ==
    IF name \notin RegisteredTools
    THEN [ret |-> Err("Tool not found: " \o name), ev |-> {"lookup"}]
    ELSE
      LET r == execute(name, arguments, b) IN
      IF ~r.ret.ok
      THEN [ret |-> Err(r.ret.err), ev |-> {"lookup"} \cup r.ev]
      ELSE
        LET o == optimize(from_config(config), r.ret.val)
            result == IF is_get_operation(name) /\ o.ok THEN o.val
                      ELSE r.ret.val
        IN [ret |-> Ok(CallToolContent(result)),
            ev |-> {"lookup"} \cup r.ev]

\* RequestHandler::create_string_prop / create_number_prop / create_union_prop
\* and the two Property literals; the description text is left out.
create_string_prop == [type |-> JStr("string"), default |-> None]
create_number_prop(default) == [type |-> JStr("number"), default |-> Some(JNum(default))]
create_union_prop(types) == [type |-> JArr([i \in 1..Len(types) |-> JStr(types[i])]),
                             default |-> None]
array_prop == [type |-> JStr("array"), default |-> None]
object_prop == [type |-> JStr("object"), default |-> None]

\* The (description, properties, required) match of tool_to_mcp_tool.
ToolSchema(name) ==
    CASE name = "jira_get_issue" ->
           [description |-> "Get Jira issue by key",
            properties |-> [issue_key |-> create_string_prop],
            required |-> <<"issue_key">>]
      [] name = "jira_search" ->
           [description |-> "Search Jira issues using JQL",
            properties |-> [jql |-> create_string_prop,
                            limit |-> create_number_prop(20),
                            fields |-> array_prop],
            required |-> <<"jql">>]
      [] name = "jira_create_issue" ->
           [description |-> "Create Jira issue",
            properties |-> [project_key |-> create_string_prop,
                            summary |-> create_string_prop,
                            issue_type |-> create_string_prop,
                            description |-> create_union_prop(<<"string", "object">>)],
            required |-> <<"project_key", "summary", "issue_type">>]
      [] name = "jira_update_issue" ->
           [description |-> "Update Jira issue",
            properties |-> [issue_key |-> create_string_prop,
                            fields |-> object_prop],
            required |-> <<"issue_key", "fields">>]
      [] name = "jira_add_comment" ->
           [description |-> "Add comment to Jira issue",
            properties |-> [issue_key |-> create_string_prop,
                            comment |-> create_union_prop(<<"string", "object">>)],
            required |-> <<"issue_key", "comment">>]
      [] name = "jira_update_comment" ->
           [description |-> "Update an existing comment on a Jira issue with rich text formatting (ADF)",
            properties |-> [issue_key |-> create_string_prop,
                            comment_id |-> create_string_prop,
                            body |-> create_union_prop(<<"string", "object">>)],
            required |-> <<"issue_key", "comment_id", "body">>]
      [] name = "jira_transition_issue" ->
           [description |-> "Transition Jira issue status",
            properties |-> [issue_key |-> create_string_prop,
                            transition_id |-> create_string_prop],
            required |-> <<"issue_key", "transition_id">>]
      [] name = "jira_get_transitions" ->
           [description |-> "Get Jira issue transitions",
            properties |-> [issue_key |-> create_string_prop],
            required |-> <<"issue_key">>]
      [] name = "confluence_search" ->
           [description |-> "Search Confluence using CQL",
            properties |-> [query |-> create_string_prop,
                            limit |-> create_number_prop(10)],
            required |-> <<"query">>]
      [] name = "confluence_get_page" ->
           [description |-> "Get Confluence page by ID",
            properties |-> [page_id |-> create_string_prop],
            required |-> <<"page_id">>]
      [] name = "confluence_get_page_children" ->
           [description |-> "Get page child pages",
            properties |-> [page_id |-> create_string_prop],
            required |-> <<"page_id">>]
      [] name = "confluence_get_comments" ->
           [description |-> "Get page comments",
            properties |-> [page_id |-> create_string_prop],
            required |-> <<"page_id">>]
      [] name = "confluence_create_page" ->
           [description |-> "Create Confluence page",
            properties |-> [space_key |-> create_string_prop,
                            title |-> create_string_prop,
                            content |-> create_string_prop,
                            parent_id |-> create_string_prop],
            required |-> <<"space_key", "title", "content">>]
      [] name = "confluence_update_page" ->
           [description |-> "Update Confluence page",
            properties |-> [page_id |-> create_string_prop,
                            title |-> create_string_prop,
                            content |-> create_string_prop,
                            version_number |-> create_number_prop(1)],
            required |-> <<"page_id", "title", "content">>]
      [] OTHER ->
           [description |-> "Unknown tool", properties |-> <<>>, required |-> <<>>]

\* RequestHandler::tool_to_mcp_tool
tool_to_mcp_tool(name) ==
    [name |-> name,
     description |-> ToolSchema(name).description,
     input_schema |-> [schema_type |-> "object",
                       properties |-> ToolSchema(name).properties,
                       required |-> ToolSchema(name).required]]

\* RequestHandler::list_tools: one descriptor per registry key.  The Vec's
\* order is the HashMap's iteration order, which is unspecified; the list is
\* modelled by the set of its elements.
list_tools == {tool_to_mcp_tool(name) : name \in RegisteredTools}

\* serde_json::to_value(ListToolsResult { tools })
to_value_ListToolsResult(tools) ==
    JObj([tools |-> [t |-> "arr", elems |-> tools]])

(***************************************************************************)
(* src/mcp/server.rs: the router.  A handler takes the session flag of     *)
(* &self and the request, and gives its return value (ret), the session    *)
(* flag it leaves (initialized) and the work it invoked (ev).              *)
(***************************************************************************)
\* init_req.protocol_version.starts_with("2025"), on the version strings of
\* the modelled input.
StartsWith2025(version) == version \in {"2025-06-18", "2025-03-26"}

\* serde_json::to_value(InitializeResult { .. })
to_value_InitializeResult(protocol_version) ==
    JObj([protocolVersion |-> JStr(protocol_version),
          capabilities |-> JObj([tools |-> EmptyObj, experimental |-> EmptyObj]),
          serverInfo |-> JObj([name |-> JStr("mcp-atlassian"),
                               version |-> JStr("0.1.0")])])

\* Mutation of handle_initialize: the request marks the session initialized.
handle_initialize_sets_flag(initialized_, request) ==
    [ret |-> Ok(JsonRpcResponse_success(request.id,
                    to_value_InitializeResult(PROTOCOL_VERSION_2025))),
     initialized |-> TRUE,
     ev |-> {}]

\* McpServer::handle_initialize
handle_initialize(initialized_, request) ==
    LET protocol_version ==
            IF IsSome(request.params) THEN
                LET init_req == from_value_InitializeRequest(request.params[1]) IN
                IF init_req.ok THEN
                    IF StartsWith2025(init_req.val.protocol_version)
                    THEN PROTOCOL_VERSION_2025
                    ELSE PROTOCOL_VERSION
                ELSE PROTOCOL_VERSION_2025
            ELSE PROTOCOL_VERSION_2025
    IN [ret |-> Ok(JsonRpcResponse_success(request.id,
                       to_value_InitializeResult(protocol_version))),
        initialized |-> initialized_,
        ev |-> {}]

\* Mutation of handle_initialized: the flag is flipped instead of set.
handle_initialized_toggle(initialized_, request) ==
    [ret |-> IF IsNone(request.id) THEN Ok(None)
             ELSE Ok(Some(JsonRpcResponse_success(request.id, JNull))),
     initialized |-> ~initialized_,
     ev |-> {}]

\* Mutation of handle_initialized: a response is returned for a notification too.
handle_initialized_always_replies(initialized_, request) ==
    [ret |-> Ok(Some(JsonRpcResponse_success(request.id, JNull))),
     initialized |-> TRUE,
     ev |-> {}]

\* McpServer::handle_initialized
handle_initialized(initialized_, request) ==
    [ret |-> IF IsNone(request.id) THEN Ok(None)
             ELSE Ok(Some(JsonRpcResponse_success(request.id, JNull))),
     initialized |-> TRUE,
     ev |-> {}]

\* Mutation of handle_list_tools: the session check is missing.
handle_list_tools_unchecked(initialized_, request) ==
    [ret |-> Ok(JsonRpcResponse_success(request.id,
                    to_value_ListToolsResult(list_tools))),
     initialized |-> initialized_,
     ev |-> {"list_tools"}]

\* McpServer::handle_list_tools
handle_list_tools(initialized_, request) ==
    IF ~initialized_
    THEN [ret |-> Ok(JsonRpcResponse_error(request.id,
                        internal_error("Server not initialized"))),
          initialized |-> initialized_,
          ev |-> {}]
    ELSE [ret |-> Ok(JsonRpcResponse_success(request.id,
                        to_value_ListToolsResult(list_tools))),
          initialized |-> initialized_,
          ev |-> {"list_tools"}]

\* The rest of McpServer::handle_call_tool, after the session check.
CallToolBody(initialized_, request, b) ==
    IF IsNone(request.params)
    THEN [ret |-> Ok(JsonRpcResponse_error(request.id,
                        invalid_params("Missing params"))),
          initialized |-> initialized_,
          ev |-> {}]
    ELSE
      LET params == from_value_CallToolRequest(request.params[1]) IN
      IF ~params.ok
      THEN [ret |-> Err(params.err),
            initialized |-> initialized_,
            ev |-> {"parse_params"}]
      ELSE
        LET c == call_tool(params.val.name, params.val.arguments, b) IN
        [ret |-> IF c.ret.ok
                 THEN Ok(JsonRpcResponse_success(request.id, c.ret.val))
                 ELSE Ok(JsonRpcResponse_error(request.id,
                             internal_error(c.ret.err))),
         initialized |-> initialized_,
         ev |-> {"parse_params"} \cup c.ev]

\* Mutation of handle_call_tool: the session check is missing.
handle_call_tool_unchecked(initialized_, request, b) ==
    CallToolBody(initialized_, request, b)

\* McpServer::handle_call_tool
handle_call_tool(initialized_, request, b) ==
    IF ~initialized_
    THEN [ret |-> Ok(JsonRpcResponse_error(request.id,
                        internal_error("Server not initialized"))),
          initialized |-> initialized_,
          ev |-> {}]
    ELSE CallToolBody(initialized_, request, b)

\* Mutation of handle_list_prompts: the session check of handle_list_tools
\* is applied to it.
handle_list_prompts_gated(initialized_, request) ==
    IF ~initialized_
    THEN [ret |-> Ok(JsonRpcResponse_error(request.id,
                        internal_error("Server not initialized"))),
          initialized |-> initialized_,
          ev |-> {}]
    ELSE [ret |-> Ok(JsonRpcResponse_success(request.id,
                        JObj([prompts |-> JArr(<<>>)]))),
          initialized |-> initialized_,
          ev |-> {}]

\* McpServer::handle_list_prompts
handle_list_prompts(initialized_, request) ==
    [ret |-> Ok(JsonRpcResponse_success(request.id,
                    JObj([prompts |-> JArr(<<>>)]))),
     initialized |-> initialized_,
     ev |-> {}]

\* Mutation of handle_list_resources: the method is refused before the
\* session is initialized.
handle_list_resources_gated(initialized_, request) ==
    IF ~initialized_
    THEN [ret |-> Ok(JsonRpcResponse_error(request.id,
                        internal_error("Server not initialized"))),
          initialized |-> initialized_,
          ev |-> {}]
    ELSE [ret |-> Ok(JsonRpcResponse_success(request.id,
                        JObj([resources |-> JArr(<<>>)]))),
          initialized |-> initialized_,
          ev |-> {}]

\* McpServer::handle_list_resources
handle_list_resources(initialized_, request) ==
    [ret |-> Ok(JsonRpcResponse_success(request.id,
                    JObj([resources |-> JArr(<<>>)]))),
     initialized |-> initialized_,
     ev |-> {}]

\* Result::map(Some) on a handler's return value
MapSome(h) ==
    [ret |-> IF h.ret.ok THEN Ok(Some(h.ret.val)) ELSE h.ret,
     initialized |-> h.initialized,
     ev |-> h.ev]

\* Mutation of process_request: the version literal is not validated before
\* the method is routed.
process_request_unversioned(initialized_, input, b) ==
    LET parsed == from_str_JsonRpcRequest(input) IN
    IF ~parsed.ok
    THEN [ret |-> Ok(Some(JsonRpcResponse_error(None, parse_error))),
          initialized |-> initialized_,
          ev |-> {}]
    ELSE
      LET request == parsed.val IN
      CASE request.method = "initialize" ->
             MapSome(handle_initialize(initialized_, request))
        [] request.method \in {"initialized", "notifications/initialized"} ->
             handle_initialized(initialized_, request)
        [] request.method = "tools/list" ->
             MapSome(handle_list_tools(initialized_, request))
        [] request.method = "tools/call" ->
             MapSome(handle_call_tool(initialized_, request, b))
        [] request.method = "prompts/list" ->
             MapSome(handle_list_prompts(initialized_, request))
        [] request.method = "resources/list" ->
             MapSome(handle_list_resources(initialized_, request))
        [] OTHER ->
             [ret |-> Ok(Some(JsonRpcResponse_error(request.id,
                                 method_not_found(request.method)))),
              initialized |-> initialized_,
              ev |-> {}]

\* McpServer::process_request
process_request(initialized_, input, b) ==
    LET parsed == from_str_JsonRpcRequest(input) IN
    IF ~parsed.ok
    THEN [ret |-> Ok(Some(JsonRpcResponse_error(None, parse_error))),
          initialized |-> initialized_,
          ev |-> {}]
    ELSE
      LET request == parsed.val IN
      IF request.jsonrpc # "2.0"
      THEN [ret |-> Ok(Some(JsonRpcResponse_error(request.id, invalid_request))),
            initialized |-> initialized_,
            ev |-> {}]
      ELSE
        CASE request.method = "initialize" ->
               MapSome(handle_initialize(initialized_, request))
          [] request.method \in {"initialized", "notifications/initialized"} ->
               handle_initialized(initialized_, request)
          [] request.method = "tools/list" ->
               MapSome(handle_list_tools(initialized_, request))
          [] request.method = "tools/call" ->
               MapSome(handle_call_tool(initialized_, request, b))
          [] request.method = "prompts/list" ->
               MapSome(handle_list_prompts(initialized_, request))
          [] request.method = "resources/list" ->
               MapSome(handle_list_resources(initialized_, request))
          [] OTHER ->
               [ret |-> Ok(Some(JsonRpcResponse_error(request.id,
                                   method_not_found(request.method)))),
                initialized |-> initialized_,
                ev |-> {}]

(***************************************************************************)
(* The modelled input: the lines a client may send and the outcomes of a   *)
(* Backend Operation.                                                      *)
(***************************************************************************)
\* The JSON text of an envelope; a member given as None is left out.
Envelope(jsonrpc, method, params, id) ==
    LET given == [jsonrpc |-> jsonrpc, method |-> method,
                  params |-> params, id |-> id]
        keys == {k \in DOMAIN given : IsSome(given[k])}
    IN [kind |-> "json", doc |-> JObj([k \in keys |-> given[k][1]])]

InitializeParams(version) ==
    JObj([protocolVersion |-> JStr(version),
          capabilities |-> EmptyObj,
          clientInfo |-> JObj([name |-> JStr("client"), version |-> JStr("1")])])

CallParams(name, arguments) ==
    JObj([name |-> JStr(name), arguments |-> arguments])

IssueArgs == JObj([issue_key |-> JStr("K-1"), fields |-> EmptyObj])

\* The id member: absent, null, a number, a string.
WireIds == {None, Some(JNull), Some(JNum(1)), Some(JStr("a"))}
FewIds == {None, Some(JNum(1))}

\* <<method, params, id>> of the envelopes with the recognized version literal
Calls ==
    ({"initialize"} \X {None, Some(InitializeParams("2024-11-05")),
                        Some(InitializeParams("2025-03-26")),
                        Some(JObj([protocolVersion |-> JStr("2024-11-05")]))}
        \X {Some(JNum(1))})
    \cup {<<"initialize", None, None>>}
    \cup ({"initialized", "tools/list"} \X {None} \X WireIds)
    \cup ({"notifications/initialized", "prompts/list", "resources/list",
           "unknown/thing"} \X {None} \X FewIds)
    \cup ({"tools/call"} \X {None, Some(CallParams("jira_get_issue", IssueArgs))}
             \X FewIds)
    \cup ({"tools/call"} \X {Some(JNull),
                             Some(JObj([arguments |-> EmptyObj])),
                             Some(JObj([name |-> JStr("jira_get_issue")])),
                             Some(CallParams("jira_get_issue", EmptyObj)),
                             Some(CallParams("jira_update_issue", IssueArgs)),
                             Some(CallParams("jira_create_issue", EmptyObj)),
                             Some(CallParams("missing_tool", EmptyObj))}
             \X {Some(JNum(1))})

Lines ==
    {Envelope(Some(JStr("2.0")), Some(JStr(c[1])), c[2], c[3]) : c \in Calls}
    \cup {Envelope(Some(JStr("1.0")), Some(JStr("initialized")), None, id) :
            id \in FewIds}
    \cup {Envelope(Some(JStr("1.0")), Some(JStr("tools/list")), None,
                   Some(JNum(1))),
          Envelope(Some(JStr("1.0")), Some(JStr("tools/call")),
                   Some(CallParams("jira_get_issue", IssueArgs)), Some(JNum(1)))}
    \cup {Envelope(None, Some(JStr("tools/list")), None, Some(JNum(1))),
          [kind |-> "json", doc |-> JNum(1)],
          [kind |-> "garbage"]}

\* What the remote system does when a handler performs its HTTP exchange.
IssueBody == JObj([key |-> JStr("K-1"), self |-> JStr("url"),
                   summary |-> JStr(""), assignee |-> JNull])

NoExchange == [send |-> "error", status |-> "", body |-> JNull, text |-> ""]

BackendOutcomes ==
    { [send |-> "ok", status |-> "200 OK", body |-> IssueBody, text |-> "{..}"],
      [send |-> "ok", status |-> "404 Not Found", body |-> JNull,
       text |-> "Not Found"],
      NoExchange }

\* The outcomes that matter to a line: only a tools/call with a name and
\* arguments can reach a handler.
IsCallLine(input) ==
    /\ input.kind = "json" /\ input.doc.t = "obj"
    /\ "method" \in DOMAIN input.doc.o
    /\ input.doc.o["method"] = JStr("tools/call")
    /\ "params" \in DOMAIN input.doc.o
    /\ from_value_CallToolRequest(input.doc.o["params"]).ok

BackendFor(input) == IF IsCallLine(input) THEN BackendOutcomes ELSE {NoExchange}

(***************************************************************************)
(* State.  initialized, empty_reads, stdout and pc are the program's;      *)
(* line, outcome, backend, seenInitialize, seenInitialized, handshake and  *)
(* trace record what has happened, for the properties.                     *)
(***************************************************************************)
VARIABLES
    initialized,     \* McpServer.initialized
    empty_reads,     \* run: consecutive zero-length reads
    stdout,          \* the responses written, one per output line
    pc,              \* run: "reading" (in its loop) or "done" (returned)
    line,            \* what the last read_line gave
    outcome,         \* what process_request returned for it, if it was called
    backend,         \* the Backend Operation's outcome, if one was performed
    seenInitialize,  \* a 2.0 initialize request has been processed
    seenInitialized, \* a 2.0 initialized (or alias) message has been processed
    handshake,       \* and it came after a 2.0 initialize request
    trace,           \* the work invoked so far, with the session flag it ran under
    optimizer,       \* RequestHandler.optimizer
    value,           \* the Value an optimize call works on, in place
    source,          \* that value before the first call
    passes,          \* the number of optimize calls applied to it
    dispatched,      \* a call_tool made with value as the remote system's body
    pending,         \* the optimize_recursive calls still to run: the paths of
                     \* their arguments within value, the running one first
    search,          \* a jira_search field resolution: its inputs and result
    tasks,           \* handler invocations that run concurrently on one McpServer
    lock             \* the RwLock around McpServer.initialized

serverVars == <<initialized, empty_reads, stdout, pc, line, outcome, backend,
                seenInitialize, seenInitialized, handshake, trace>>

optimizerVars == <<optimizer, value, source, passes, dispatched, pending>>

lockVars == <<tasks, lock>>

vars == <<serverVars, optimizerVars, search, lockVars>>

\* RwLock::new: no guard is held and no task waits.
FreeLock == [readers |-> {}, writer |-> None, queue |-> <<>>]

\* No handler runs beside the transport loop.
LockIdle == tasks = <<>> /\ lock = FreeLock

\* No jira_search has resolved its fields.
NoSearch ==
    [api_fields |-> None,
     jira_search_default_fields |-> None,
     jira_search_custom_fields |-> <<>>,
     resolved |-> None]

\* RequestHandler::new: the optimizer is built from the configuration; no
\* value is being optimized.
OptimizerCreated ==
    /\ optimizer = from_config(config)
    /\ value = JNull
    /\ source = JNull
    /\ passes = 0
    /\ dispatched = None
    /\ pending = <<>>

\* if empty_reads > 3
MaxEmptyReads == 3

\* Mutation of McpServer::new: the session starts initialized.
Init_initialized ==
    /\ initialized = TRUE
    /\ empty_reads = 0
    /\ stdout = <<>>
    /\ pc = "reading"
    /\ line = [kind |-> "none"]
    /\ outcome = None
    /\ backend = None
    /\ seenInitialize = FALSE
    /\ seenInitialized = FALSE
    /\ handshake = FALSE
    /\ trace = {}
    /\ OptimizerCreated
    /\ search = NoSearch
    /\ LockIdle

\* McpServer::new and the locals of run before its loop
Init ==
    /\ initialized = FALSE
    /\ empty_reads = 0
    /\ stdout = <<>>
    /\ pc = "reading"
    /\ line = [kind |-> "none"]
    /\ outcome = None
    /\ backend = None
    /\ seenInitialize = FALSE
    /\ seenInitialized = FALSE
    /\ handshake = FALSE
    /\ trace = {}
    /\ OptimizerCreated
    /\ search = NoSearch
    /\ LockIdle

History == <<seenInitialize, seenInitialized, handshake, trace>>

\* run is at the top of its loop; the exploration ends once MaxOut lines
\* have been written.
AtLoop == pc = "reading" /\ Len(stdout) < MaxOut

\* run: read_line gives Ok(0)
ReadEof ==
    /\ AtLoop
    /\ empty_reads' = empty_reads + 1
    /\ pc' = IF empty_reads + 1 > MaxEmptyReads THEN "done" ELSE "reading"
    /\ line' = [kind |-> "eof"]
    /\ outcome' = None
    /\ backend' = None
    /\ UNCHANGED <<initialized, stdout, History, optimizerVars, search, lockVars>>

\* run: read_line gives Err
ReadError ==
    /\ AtLoop
    /\ pc' = "done"
    /\ line' = [kind |-> "error"]
    /\ outcome' = None
    /\ backend' = None
    /\ UNCHANGED <<initialized, empty_reads, stdout, History, optimizerVars, search, lockVars>>

\* run: a line that is empty after trim
\* Mutation of ReadBlank: a blank line does not reset the count of
\* zero-length reads.
ReadBlank_keeps_count ==
    /\ AtLoop
    /\ line' = [kind |-> "blank"]
    /\ outcome' = None
    /\ backend' = None
    /\ UNCHANGED <<initialized, empty_reads, stdout, pc, History, optimizerVars,
                   search, lockVars>>

ReadBlank ==
    /\ AtLoop
    /\ empty_reads' = 0
    /\ line' = [kind |-> "blank"]
    /\ outcome' = None
    /\ backend' = None
    /\ UNCHANGED <<initialized, stdout, pc, History, optimizerVars, search, lockVars>>

\* The request a line holds when it is an envelope with the recognized version.
Routed(input) ==
    LET parsed == from_str_JsonRpcRequest(input) IN
    IF parsed.ok /\ parsed.val.jsonrpc = "2.0" THEN Some(parsed.val) ELSE None

RoutedTo(input, methods) ==
    IsSome(Routed(input)) /\ Routed(input)[1].method \in methods

\* Mutation of run: an Err of process_request is logged and nothing is written.
ResponseFor_silent(ret) ==
    IF ret.ok THEN ret.val
    ELSE None

\* run: the response written for a return value of process_request, if any
ResponseFor(ret) ==
    IF ret.ok THEN ret.val
    ELSE Some(JsonRpcResponse_error(None, internal_error(ret.err)))

\* Mutation of ReadLine: the response is written before the lines that are
\* already on stdout.
ReadLine_out_of_order(input, b) ==
    LET p == process_request(initialized, input, b)
        response == ResponseFor(p.ret)
    IN
    /\ AtLoop
    /\ empty_reads' = 0
    /\ initialized' = p.initialized
    /\ stdout' = IF IsSome(response) THEN <<response[1]>> \o stdout ELSE stdout
    /\ pc' = pc
    /\ line' = input
    /\ outcome' = Some(p.ret)
    /\ backend' = IF "backend" \in p.ev THEN Some(b) ELSE None
    /\ seenInitialize' = (seenInitialize \/ RoutedTo(input, {"initialize"}))
    /\ seenInitialized' =
           (seenInitialized
              \/ RoutedTo(input, {"initialized", "notifications/initialized"}))
    /\ handshake' =
           (handshake
              \/ (seenInitialize
                    /\ RoutedTo(input, {"initialized", "notifications/initialized"})))
    /\ trace' = trace \cup {[op |-> e, initialized |-> initialized] : e \in p.ev}
    /\ UNCHANGED <<optimizerVars, search, lockVars>>

\* run: a non-empty line is read and processed, and its response, if any,
\* written and flushed.  The client keeps its end of stdout open: write_all
\* and flush succeed.
ReadLine(input, b) ==
    LET p == process_request(initialized, input, b)
        response == ResponseFor(p.ret)
    IN
    /\ AtLoop
    /\ empty_reads' = 0
    /\ initialized' = p.initialized
    /\ stdout' = IF IsSome(response) THEN Append(stdout, response[1]) ELSE stdout
    /\ pc' = pc
    /\ line' = input
    /\ outcome' = Some(p.ret)
    /\ backend' = IF "backend" \in p.ev THEN Some(b) ELSE None
    /\ seenInitialize' = (seenInitialize \/ RoutedTo(input, {"initialize"}))
    /\ seenInitialized' =
           (seenInitialized
              \/ RoutedTo(input, {"initialized", "notifications/initialized"}))
    /\ handshake' =
           (handshake
              \/ (seenInitialize
                    /\ RoutedTo(input, {"initialized", "notifications/initialized"})))
    /\ trace' = trace \cup {[op |-> e, initialized |-> initialized] : e \in p.ev}
    /\ UNCHANGED <<optimizerVars, search, lockVars>>

Next ==
    \/ ReadEof
    \/ ReadError
    \/ ReadBlank
    \/ \E input \in Lines : \E b \in BackendFor(input) : ReadLine(input, b)

Spec == Init /\ [][Next]_vars

(***************************************************************************)
(* Properties of the session state machine.                                *)
(***************************************************************************)
HandshakeMethods == {"initialized", "notifications/initialized"}
ToolMethods == {"tools/list", "tools/call"}

\* The request of the last line read, when it was routed to a handler.
Request == Routed(line)[1]

NotInitialized(id) ==
    JsonRpcResponse_error(id, internal_error("Server not initialized"))

\* process_request returned this response for the last line and run wrote it
\* as the last line of stdout.
Answered(response) ==
    /\ outcome = Some(Ok(Some(response)))
    /\ Len(stdout) > 0
    /\ stdout[Len(stdout)] = response

\* process_request returned a response holding a result and no error for the
\* last line, with the request's id, and run wrote it.
AnsweredWithSuccess ==
    /\ IsSome(outcome) /\ outcome[1].ok /\ IsSome(outcome[1].val)
    /\ IsSome(outcome[1].val[1].result)
    /\ IsNone(outcome[1].val[1].error)
    /\ outcome[1].val[1].id = Request.id
    /\ Answered(outcome[1].val[1])

\* The last line was a tools/call whose params name a registered tool, and the
\* tool's handler returned Ok.
HandlerSucceeded ==
    /\ IsSome(Request.params)
    /\ from_value_CallToolRequest(Request.params[1]).ok
    /\ from_value_CallToolRequest(Request.params[1]).val.name \in RegisteredTools
    /\ IsSome(backend)
    /\ execute(from_value_CallToolRequest(Request.params[1]).val.name,
               from_value_CallToolRequest(Request.params[1]).val.arguments,
               backend[1]).ret.ok

\* C1: a tools/list or tools/call processed before any initialized message
\* (or its alias) has been processed is answered with the InternalError
\* envelope -32603 'Server not initialized'; a tools/list, or a tools/call with
\* valid params naming a registered tool whose handler succeeds, processed
\* after such a message is answered with a success result.
C1_SessionGate ==
    RoutedTo(line, ToolMethods) =>
        /\ ~seenInitialized =>
              /\ Answered(NotInitialized(Request.id))
              /\ stdout[Len(stdout)].error[1].code = -32603
        /\ (seenInitialized /\ (Request.method = "tools/list" \/ HandlerSucceeded))
              => AnsweredWithSuccess

\* A tools/call whose handler succeeded after an initialized message.
C1_Witness ==
    /\ RoutedTo(line, {"tools/call"})
    /\ seenInitialized
    /\ HandlerSucceeded
    /\ AnsweredWithSuccess

\* C2 as stated: a prompts/list or resources/list processed while the session
\* is Uninitialized is answered with the internal-error envelope 'Server not
\* initialized' and not with a success result.
C2_Original ==
    (RoutedTo(line, {"prompts/list", "resources/list"}) /\ ~initialized) =>
        /\ Answered(NotInitialized(Request.id))
        /\ ~AnsweredWithSuccess

\* C2 as amended: a prompts/list or resources/list processed while the session
\* is Uninitialized is not gated: it is answered with a success result holding
\* the empty prompts (resources) array, with the request's id.
C2_Amended ==
    /\ (RoutedTo(line, {"prompts/list"}) /\ ~initialized) =>
          Answered(JsonRpcResponse_success(Request.id,
                                           JObj([prompts |-> JArr(<<>>)])))
    /\ (RoutedTo(line, {"resources/list"}) /\ ~initialized) =>
          Answered(JsonRpcResponse_success(Request.id,
                                           JObj([resources |-> JArr(<<>>)])))

\* A prompts/list answered while the session is Uninitialized.
C2_Witness ==
    /\ RoutedTo(line, {"prompts/list"})
    /\ ~initialized
    /\ IsSome(Request.id)
    /\ AnsweredWithSuccess

\* C3: no params parsing, registry lookup, listing, tool handler or Backend
\* Operation has run under a false session flag; a tools/call in the
\* Uninitialized state returns its error and performs no Backend Operation.
C3_NoWorkUninitialized ==
    /\ \A e \in trace : e.initialized
    /\ (RoutedTo(line, {"tools/call"}) /\ ~initialized) =>
          /\ Answered(NotInitialized(Request.id))
          /\ backend = None

\* A tools/call naming a registered tool, with the arguments its handler needs,
\* processed in the Uninitialized state.
C3_Witness ==
    /\ RoutedTo(line, {"tools/call"})
    /\ ~initialized
    /\ IsSome(Request.params)
    /\ Request.params[1] = CallParams("jira_get_issue", IssueArgs)
    /\ trace = {}

\* C4: the session flag is false when the server is created and is monotonic:
\* once true it is true in every later state, whatever is processed afterwards.
C4_FlagMonotonic ==
    (initialized = FALSE) /\ [][initialized => initialized']_vars

\* The flag is true and a line that cannot be parsed has since been answered
\* with the parse error.
C4_Witness ==
    /\ initialized
    /\ line.kind = "garbage"
    /\ Answered(JsonRpcResponse_error(None, parse_error))

\* C5: only the handshake handler writes the session flag: a step that reads
\* anything but an initialized message (or its alias) routed to
\* handle_initialized leaves the flag as it was; in particular an initialize
\* request in the Uninitialized state leaves the session Uninitialized.
C5_OnlyHandshakeWrites ==
    [][~RoutedTo(line', HandshakeMethods) => initialized' = initialized]_vars

\* An initialize request has been answered and the session is Uninitialized.
C5_Witness ==
    /\ RoutedTo(line, {"initialize"})
    /\ AnsweredWithSuccess
    /\ ~initialized

\* C6: an initialized message or its alias, in any state, leaves the session
\* Initialized; with an id the server returns (and writes) a success response
\* with that id and a null result, without an id it writes no response.
C6_InitializedMessage ==
    [][RoutedTo(line', HandshakeMethods) =>
          /\ initialized'
          /\ IF IsSome(Routed(line')[1].id)
             THEN /\ outcome' = Some(Ok(Some(
                        JsonRpcResponse_success(Routed(line')[1].id, JNull))))
                  /\ stdout' = Append(stdout,
                        JsonRpcResponse_success(Routed(line')[1].id, JNull))
             ELSE /\ outcome' = Some(Ok(None))
                  /\ stdout' = stdout]_vars

\* The alias with an id, answered with the null result as the only line of
\* stdout, in the Initialized state.
C6_Witness ==
    /\ RoutedTo(line, {"notifications/initialized"})
    /\ IsSome(Request.id)
    /\ AnsweredWithSuccess
    /\ initialized
    /\ Len(stdout) = 1

\* The last tools/list or tools/call was answered with a success result.
ToolsServed == RoutedTo(line, ToolMethods) /\ AnsweredWithSuccess

\* C7 as stated: listing or calling tools succeeds only after the whole
\* handshake, an initialize request and then an initialized notification; a
\* session that has not received initialize cannot list or call tools.
C7_Original == ToolsServed => handshake

\* C7 as amended: listing or calling tools succeeds only after an initialized
\* message (or its alias) has been processed; the initialize request is not
\* part of the condition: once initialized has been processed tools/list
\* succeeds whether or not the session has received initialize.
C7_Amended ==
    /\ ToolsServed => seenInitialized
    /\ (RoutedTo(line, {"tools/list"}) /\ seenInitialized) => ToolsServed

\* Tools listed in a session that never received initialize.
C7_Witness ==
    /\ RoutedTo(line, {"tools/list"})
    /\ ToolsServed
    /\ ~seenInitialize

\* C8 as stated: every request that carries a non-null id receives exactly one
\* response, and that response carries the same id, for every method and in
\* every session state.
C8_SameIdResponse ==
    [][(from_str_JsonRpcRequest(line').ok
          /\ IsSome(from_str_JsonRpcRequest(line').val.id)) =>
          /\ Len(stdout') = Len(stdout) + 1
          /\ stdout'[Len(stdout')].id = from_str_JsonRpcRequest(line').val.id]_vars

\* C9 as stated: a well-formed message that carries no id (or a null id)
\* receives no response, whatever its method: nothing is written for it.
C9_NotificationSilent ==
    [][(IsSome(Routed(line')) /\ IsNone(Routed(line')[1].id)) =>
          stdout' = stdout]_vars

\* Every response the server has produced: the lines of stdout and the
\* response process_request returned for the last line.
Responses ==
    {stdout[i] : i \in 1..Len(stdout)}
    \cup (IF IsSome(outcome) /\ outcome[1].ok /\ IsSome(outcome[1].val)
          THEN {outcome[1].val[1]} ELSE {})

\* C10: in every response envelope the server produces exactly one of result
\* and error is present.
C10_ResultXorError ==
    \A r \in Responses : IsSome(r.result) # IsSome(r.error)

\* stdout holds a success envelope and an error envelope.
C10_Witness ==
    /\ \E i \in 1..Len(stdout) : IsSome(stdout[i].result) /\ IsNone(stdout[i].error)
    /\ \E i \in 1..Len(stdout) : IsSome(stdout[i].error) /\ IsNone(stdout[i].result)

(***************************************************************************)
(* Properties of the router's and the transport loop's error handling.     *)
(***************************************************************************)
\* The methods process_request routes to a handler.
RecognizedMethods ==
    {"initialize", "initialized", "notifications/initialized", "tools/list",
     "tools/call", "prompts/list", "resources/list"}

\* C11: a request with version "2.0" and a method that is none of the
\* recognized ones is answered, in both session states, with the error
\* envelope of code -32601 whose message is 'Method not found: ' followed by
\* the method name and whose id is the request's id; the session flag is
\* left as it was.
C11_MethodNotFound ==
    [][(IsSome(Routed(line'))
          /\ Routed(line')[1].method \notin RecognizedMethods) =>
          LET request == Routed(line')[1]
              response ==
                  [jsonrpc |-> "2.0", result |-> None,
                   error |-> Some([code |-> -32601,
                                   message |-> "Method not found: "
                                                  \o request.method,
                                   data |-> None]),
                   id |-> request.id]
          IN /\ outcome' = Some(Ok(Some(response)))
             /\ stdout' = Append(stdout, response)
             /\ initialized' = initialized]_vars

\* An unknown method with an id, answered in the Initialized state.
C11_Witness ==
    /\ RoutedTo(line, {"unknown/thing"})
    /\ Request.id = Some(JNum(1))
    /\ initialized
    /\ Answered(JsonRpcResponse_error(Some(JNum(1)),
                                      method_not_found("unknown/thing")))

\* The envelope of the last line read, when it deserialized as a request with
\* a version literal other than "2.0".
BadVersion(input) ==
    /\ from_str_JsonRpcRequest(input).ok
    /\ from_str_JsonRpcRequest(input).val.jsonrpc # "2.0"

\* C12: an envelope whose version literal is not "2.0" is answered with the
\* invalid-request error (code -32600) carrying the request's id, before the
\* method is routed: no handler runs, so the session flag stays as it was
\* (an initialized message with a wrong version does not initialize the
\* session) and no lookup, handler or Backend Operation is invoked (a
\* tools/call with a wrong version invokes no tool).
C12_BadVersionFirst ==
    [][BadVersion(line') =>
          LET request == from_str_JsonRpcRequest(line').val
              response ==
                  [jsonrpc |-> "2.0", result |-> None,
                   error |-> Some([code |-> -32600,
                                   message |-> "Invalid request",
                                   data |-> None]),
                   id |-> request.id]
          IN /\ outcome' = Some(Ok(Some(response)))
             /\ stdout' = Append(stdout, response)
             /\ initialized' = initialized
             /\ trace' = trace
             /\ backend' = None]_vars

\* An initialized request with version "1.0" and an id, answered with the
\* invalid-request error while the session stays Uninitialized.
C12_Witness ==
    /\ BadVersion(line)
    /\ from_str_JsonRpcRequest(line).val.method = "initialized"
    /\ ~initialized
    /\ Answered(JsonRpcResponse_error(Some(JNum(1)), invalid_request))

\* The line is not blank and does not deserialize as a request envelope.
Unparsable(input) ==
    /\ input.kind \in {"json", "garbage"}
    /\ ~from_str_JsonRpcRequest(input).ok

\* The parse-error envelope: code -32700 and a null id.
ParseErrorEnvelope ==
    [jsonrpc |-> "2.0", result |-> None,
     error |-> Some([code |-> -32700, message |-> "Parse error", data |-> None]),
     id |-> None]

BadCallParams(request) ==
    \/ IsNone(request.params)
    \/ ~from_value_CallToolRequest(request.params[1]).ok

\* C14 as stated: a tools/call processed in the Initialized state whose params
\* are missing or malformed (lacking name or arguments, for example) is
\* answered with an error envelope of code -32602.
C14_InvalidParams ==
    [][(RoutedTo(line', {"tools/call"}) /\ initialized
          /\ BadCallParams(Routed(line')[1])) =>
          /\ stdout' # stdout
          /\ IsSome(stdout'[Len(stdout')].error)
          /\ stdout'[Len(stdout')].error[1].code = -32602]_vars

\* Tool names that RequestHandler::new does not register.
UnregisteredNames == {"missing_tool", "jira_delete_issue", "JIRA_GET_ISSUE", ""}

\* The params of the last line, when it was a routed tools/call whose params
\* deserialize.
CallRequest == from_value_CallToolRequest(Request.params[1]).val

IsCall ==
    /\ RoutedTo(line, {"tools/call"})
    /\ IsSome(Request.params)
    /\ from_value_CallToolRequest(Request.params[1]).ok

\* C15: for every tool name that is not in the registry call_tool fails with
\* 'Tool not found: ' followed by the name, after the lookup only: no handler
\* is executed and no Backend Operation performed, whatever the arguments and
\* whatever the remote system would have answered.  End to end, a tools/call
\* for such a name in the Initialized state is answered with an error
\* envelope of code -32603, that message and the request's id.
C15_ToolNotFound ==
    /\ \A name \in UnregisteredNames :
          /\ name \notin RegisteredTools
          /\ \A arguments \in {EmptyObj, IssueArgs, JNull} :
               \A b \in BackendOutcomes :
                  call_tool(name, arguments, b) =
                      [ret |-> Err("Tool not found: " \o name),
                       ev |-> {"lookup"}]
    /\ (IsCall /\ initialized /\ CallRequest.name \notin RegisteredTools) =>
          /\ Answered([jsonrpc |-> "2.0", result |-> None,
                       error |-> Some([code |-> -32603,
                                       message |-> "Tool not found: "
                                                      \o CallRequest.name,
                                       data |-> None]),
                       id |-> Request.id])
          /\ backend = None

\* A tools/call for missing_tool answered in the Initialized state.
C15_Witness ==
    /\ IsCall
    /\ initialized
    /\ CallRequest.name = "missing_tool"
    /\ Request.id = Some(JNum(1))
    /\ Len(stdout) > 0
    /\ stdout[Len(stdout)].error[1].message = "Tool not found: missing_tool"

Keys == {"self", "k"}

Leaves == {JNull, JStr(""), JStr("x"), JNum(1), JBool(TRUE)}

\* The objects with keys among keys and members among vals.
ObjectsOver(keys, vals) ==
    {JObj(o) : o \in UNION {[ks -> vals] : ks \in SUBSET keys}}

\* The arrays of at most MaxLen elements among vals.
ArraysOver(vals) ==
    {JArr(a) : a \in UNION {[1..n -> vals] : n \in 0..MaxLen}}

\* What an array may hold: strings, an object with an excluded key and an
\* empty member, an array holding an empty string.
Items ==
    {JStr(""), JStr("x"), JObj([self |-> JStr("x"), k |-> JStr("")])}

Members == Leaves \cup ObjectsOver(Keys, Leaves) \cup ArraysOver(Items)

\* {"a":"","b":null,"self":"url","c":{"iconUrl":"x","d":1}}
NoisyResult ==
    JObj([a |-> JStr(""), b |-> JNull, self |-> JStr("url"),
          c |-> JObj([iconUrl |-> JStr("x"), d |-> JNum(1)])])

Trees == Members \cup ObjectsOver(Keys, Members) \cup {NoisyResult}

\* Config.response_exclude_fields: unset, empty, one name, names repeated.
Configs ==
    {[response_exclude_fields |-> f] :
        f \in {None, Some(<<>>), Some(<<"k">>), Some(<<"k", "self", "k">>)}}

\* The server as McpServer::new leaves it, before run has read anything.
ServerIdle ==
    /\ initialized = FALSE
    /\ empty_reads = 0
    /\ stdout = <<>>
    /\ pc = "reading"
    /\ line = [kind |-> "none"]
    /\ outcome = None
    /\ backend = None
    /\ seenInitialize = FALSE
    /\ seenInitialized = FALSE
    /\ handshake = FALSE
    /\ trace = {}

OptimizerInit ==
    /\ ServerIdle
    /\ optimizer \in {from_config(cfg) : cfg \in Configs}
    /\ value \in Trees
    /\ source = value
    /\ passes = 0
    /\ dispatched = None
    /\ pending = <<>>
    /\ search = NoSearch
    /\ LockIdle

\* self.optimizer.optimize(&mut value)
Optimize ==
    /\ passes < MaxPasses
    /\ dispatched = None
    /\ value' = optimize(optimizer, value).val
    /\ passes' = passes + 1
    /\ UNCHANGED <<optimizer, source, dispatched, pending, search, lockVars, serverVars>>

\* The arguments the modelled handlers accept.
CommentArgs ==
    JObj([issue_key |-> JStr("K-1"), comment |-> JStr("c"), fields |-> EmptyObj])

\* The remote system answers 200 with value as its body.
Returns(body) ==
    [send |-> "ok", status |-> "200 OK", body |-> body, text |-> "{..}"]

\* RequestHandler::call_tool for a registered tool, with the optimizer that
\* new() builds from the configuration.
Dispatch(name) ==
    /\ passes = 0
    /\ dispatched = None
    /\ optimizer = from_config(config)
    /\ dispatched' =
           Some([name |-> name,
                 executed |-> execute(name, CommentArgs, Returns(value)).ret,
                 returned |-> call_tool(name, CommentArgs, Returns(value)).ret])
    /\ UNCHANGED <<optimizer, value, source, passes, pending, search, lockVars, serverVars>>

OptimizerNext ==
    \/ Optimize
    \/ \E name \in {"jira_get_issue", "jira_create_issue", "jira_update_issue",
                     "jira_add_comment"} : Dispatch(name)

OptimizerSpec == OptimizerInit /\ [][OptimizerNext]_vars

(***************************************************************************)
(* Properties of the dispatcher's post-processing and of the optimizer.    *)
(***************************************************************************)
\* The read-only tool names.
ReadOnlyTools ==
    {"jira_get_issue", "jira_search", "jira_get_transitions",
     "confluence_search", "confluence_get_page",
     "confluence_get_page_children", "confluence_get_comments"}

\* The content envelope holding the pretty-printed text of a result.
ContentOf(result) ==
    JObj([content |->
            JArr(<< JObj([type |-> JStr("text"),
                          text |-> [t |-> "str", pretty |-> result]]) >>)])

\* C17: call_tool passes the handler's result through the optimizer if and
\* only if the tool name is one of the seven read-only names; for every other
\* registered tool the handler's result reaches the content envelope as the
\* handler returned it, exclude-set keys and empty strings included.
C17_OptimizedIffRead ==
    /\ \A name \in RegisteredTools :
          is_get_operation(name) <=> name \in ReadOnlyTools
    /\ (IsSome(dispatched) /\ dispatched[1].executed.ok) =>
          dispatched[1].returned =
              Ok(ContentOf(IF dispatched[1].name \in ReadOnlyTools
                           THEN optimize_recursive(optimizer,
                                                   dispatched[1].executed.val)
                           ELSE dispatched[1].executed.val))

\* jira_add_comment was called and the remote system's body, with its self
\* key and an empty string, is in the content as it came.
C17_Witness ==
    /\ IsSome(dispatched)
    /\ dispatched[1].name = "jira_add_comment"
    /\ value = JObj([self |-> JStr("x"), k |-> JStr("")])
    /\ dispatched[1].returned =
           Ok(ContentOf(JObj([success |-> JBool(TRUE), comment |-> value])))

\* C18: the optimizer is idempotent: for every tree and every exclude set an
\* optimize call on a value that has been optimized already leaves it as it
\* is, optimize(optimize(T)) = optimize(T).
C18_Idempotent ==
    [][(passes >= 1 /\ passes' = passes + 1) => value' = value]_vars

\* A tree with an excluded key and an empty string under a nested object,
\* changed by the first call and optimized twice.
C18_Witness ==
    /\ passes = 2
    /\ source = JObj([k |-> JObj([self |-> JStr("x"), k |-> JStr("")]),
                      self |-> JNull])
    /\ value # source

\* The keys of the objects of a value, at any depth.
RECURSIVE KeysOf(_)
KeysOf(v) ==
    IF v.t = "obj"
    THEN DOMAIN v.o \cup UNION {KeysOf(v.o[k]) : k \in DOMAIN v.o}
    ELSE IF v.t = "arr"
    THEN UNION {KeysOf(v.a[i]) : i \in 1..Len(v.a)}
    ELSE {}

\* The exclude set of the optimizer.
ExcludeSet ==
    {optimizer.exclude_fields[i] : i \in 1..Len(optimizer.exclude_fields)}

\* C19: for every tree and exclude set, no object key at any depth of an
\* optimized value, inside arrays and nested objects included, belongs to the
\* exclude set.
C19_NoExcludedKey ==
    passes >= 1 => KeysOf(value) \cap ExcludeSet = {}

\* The excluded key sat at the root and in an object inside an array inside
\* the root object.
C19_Witness ==
    /\ passes = 1
    /\ ExcludeSet = {DEFAULT_EXCLUDE_FIELDS[i] : i \in 1..Len(DEFAULT_EXCLUDE_FIELDS)}
    /\ source = JObj([self |-> JArr(<< JStr("x") >>),
                      k |-> JArr(<< JObj([self |-> JStr("x"), k |-> JStr("")]) >>)])
    /\ value = JObj([k |-> JArr(<< EmptyObj >>)])

\* Some string-valued leaf of the value, wherever it sits, is the empty string.
RECURSIVE HasEmptyLeaf(_)
HasEmptyLeaf(v) ==
    IF v.t = "obj" THEN \E k \in DOMAIN v.o : HasEmptyLeaf(v.o[k])
    ELSE IF v.t = "arr" THEN \E i \in 1..Len(v.a) : HasEmptyLeaf(v.a[i])
    ELSE v = JStr("")

\* Some member of an object of the value, at any depth, is the empty string.
RECURSIVE HasEmptyMember(_)
HasEmptyMember(v) ==
    IF v.t = "obj"
    THEN \E k \in DOMAIN v.o : v.o[k] = JStr("") \/ HasEmptyMember(v.o[k])
    ELSE IF v.t = "arr" THEN \E i \in 1..Len(v.a) : HasEmptyMember(v.a[i])
    ELSE FALSE

\* C20 as stated: no string-valued leaf of an optimized value is the empty
\* string, wherever the leaf sits: as an object member, as an array element
\* or as the root value.
C20_Original ==
    passes >= 1 => ~HasEmptyLeaf(value)

\* C20 as amended: no member of an object, at any depth of an optimized value,
\* is the empty string; an empty string that is the root value or an element
\* of an array stays where it is, and an array keeps its length.
C20_Amended ==
    passes >= 1 =>
        /\ ~HasEmptyMember(value)
        /\ source = JStr("") => value = JStr("")
        /\ source.t = "arr" =>
              /\ value.t = "arr"
              /\ Len(value.a) = Len(source.a)
              /\ \A i \in 1..Len(source.a) :
                    source.a[i] = JStr("") => value.a[i] = JStr("")

\* An array holding an empty string and an object with an empty member: the
\* member is gone, the element is still there.
C20_Witness ==
    /\ passes = 1
    /\ optimizer = from_config(config)
    /\ source = JArr(<< JStr(""), JObj([self |-> JStr("x"), k |-> JStr("")]) >>)
    /\ value = JArr(<< JStr(""), EmptyObj >>)

\* Every member of an object of src whose key is not excluded and whose value
\* is not the empty string is a member of the object at the same place of out,
\* and every primitive of src that is still there is unchanged.
RECURSIVE Preserved(_, _)
Preserved(src, out) ==
    IF src.t = "obj" THEN
        /\ out.t = "obj"
        /\ \A k \in DOMAIN src.o :
              (k \notin ExcludeSet /\ src.o[k] # JStr("")) =>
                  /\ k \in DOMAIN out.o
                  /\ Preserved(src.o[k], out.o[k])
    ELSE IF src.t = "arr" THEN
        /\ out.t = "arr"
        /\ Len(out.a) = Len(src.a)
        /\ \A i \in 1..Len(src.a) : Preserved(src.a[i], out.a[i])
    ELSE out = src

\* C21: the optimizer never over-deletes: an object member whose key is not
\* in the exclude set and whose value is not the empty string survives at its
\* place, null, number, boolean and non-empty string values unchanged; with
\* the default exclude set {"a":"","b":null,"self":"url","c":{"iconUrl":"x",
\* "d":1}} becomes exactly {"b":null,"c":{"d":1}}.
C21_NoOverDeletion ==
    passes >= 1 =>
        /\ Preserved(source, value)
        /\ (source = NoisyResult /\ optimizer = from_config(config)) =>
              value = JObj([b |-> JNull, c |-> JObj([d |-> JNum(1)])])

\* The tree of the example, optimized with the default exclude set.
C21_Witness ==
    /\ passes = 1
    /\ source = NoisyResult
    /\ optimizer = from_config(config)
    /\ value = JObj([b |-> JNull, c |-> JObj([d |-> JNum(1)])])

\* Every array of src is, at the same place of out, an array of the same
\* length whose elements are the optimized elements of src, in their order.
RECURSIVE ArraysKept(_, _)
ArraysKept(src, out) ==
    IF src.t = "arr" THEN
        /\ out.t = "arr"
        /\ Len(out.a) = Len(src.a)
        /\ \A i \in 1..Len(src.a) :
              /\ out.a[i] = optimize_recursive(optimizer, src.a[i])
              /\ ArraysKept(src.a[i], out.a[i])
    ELSE IF src.t = "obj" THEN
        /\ out.t = "obj"
        /\ \A k \in DOMAIN out.o :
              k \in DOMAIN src.o /\ ArraysKept(src.o[k], out.o[k])
    ELSE TRUE

\* C22: the optimizer never changes the length or the element order of an
\* array: every array of the optimized value has as many elements as the
\* array at the same place of the input, each the optimized form of the
\* element at the same position.
C22_ArraysKept ==
    passes = 1 => ArraysKept(source, value)

\* An array under a key, holding an empty string, a string and an object that
\* the call changed.
C22_Witness ==
    /\ passes = 1
    /\ optimizer = from_config(config)
    /\ source = JObj([k |-> JArr(<< JStr(""),
                                    JObj([self |-> JStr("x"), k |-> JStr("")]) >>)])
    /\ value = JObj([k |-> JArr(<< JStr(""), EmptyObj >>)])

(***************************************************************************)
(* optimize_recursive call by call.  pending is the stack of the calls     *)
(* still to run, each given by the path of its argument within value; a    *)
(* step runs the body of the first one: the match on the node, the         *)
(* removals of an object, and the recursive calls it makes, which go on    *)
(* the stack in its place.                                                 *)
(***************************************************************************)
\* The node of v at path p; a step of a path is [key |-> k] or [idx |-> i].
RECURSIVE At(_, _)
At(v, p) ==
    IF p = <<>> THEN v
    ELSE IF "key" \in DOMAIN Head(p)
    THEN At(v.o[Head(p).key], Tail(p))
    ELSE At(v.a[Head(p).idx], Tail(p))

\* v with the node at path p replaced by new.
RECURSIVE Put(_, _, _)
Put(v, p, new) ==
    IF p = <<>> THEN new
    ELSE IF "key" \in DOMAIN Head(p)
    THEN JObj([v.o EXCEPT ![Head(p).key] = Put(v.o[Head(p).key], Tail(p), new)])
    ELSE JArr([v.a EXCEPT ![Head(p).idx] = Put(v.a[Head(p).idx], Tail(p), new)])

\* map.values_mut(): the members in the map's iteration order.  The calls
\* made for them work on disjoint subtrees, so one order stands for all.
RECURSIVE InOrder(_)
InOrder(ks) ==
    IF ks = {} THEN <<>>
    ELSE LET k == CHOOSE k \in ks : TRUE IN <<k>> \o InOrder(ks \ {k})

\* The argument of the call that runs next.
Node == At(value, Head(pending))

\* The call runs nothing more and returns: its frame leaves the stack.
Visited == Tail(pending)

\* match value { Value::Object(map) => steps 1 to 3 }
VisitObject ==
    /\ pending # <<>>
    /\ Node.t = "obj"
    /\ LET kept == RemoveFields(DOMAIN Node.o, optimizer.exclude_fields, 1)
           retained == IF optimizer.remove_empty_strings
                       THEN {k \in kept : ~IsEmptyString(Node.o[k])}
                       ELSE kept
           members == InOrder(retained)
       IN /\ value' = Put(value, Head(pending),
                          JObj([k \in retained |-> Node.o[k]]))
          /\ pending' =
                 [i \in 1..Len(members) |->
                     Append(Head(pending), [key |-> members[i]])] \o Visited
    /\ UNCHANGED <<optimizer, source, passes, dispatched, search, lockVars, serverVars>>

\* match value { Value::Array(arr) => for item in arr.iter_mut() }
VisitArray ==
    /\ pending # <<>>
    /\ Node.t = "arr"
    /\ pending' =
           [i \in 1..Len(Node.a) |-> Append(Head(pending), [idx |-> i])]
               \o Visited
    /\ UNCHANGED <<optimizer, value, source, passes, dispatched, search, lockVars,
                   serverVars>>

\* Mutation of VisitPrimitive: the call on a primitive does not return.
VisitPrimitive_stays ==
    /\ pending # <<>>
    /\ Node.t \notin {"obj", "arr"}
    /\ pending' = pending
    /\ UNCHANGED <<optimizer, value, source, passes, dispatched, search, lockVars,
                   serverVars>>

\* match value { _ => {} }
VisitPrimitive ==
    /\ pending # <<>>
    /\ Node.t \notin {"obj", "arr"}
    /\ pending' = Visited
    /\ UNCHANGED <<optimizer, value, source, passes, dispatched, search, lockVars,
                   serverVars>>

\* optimize calls optimize_recursive on the whole value.
TraversalInit ==
    /\ ServerIdle
    /\ optimizer = from_config(config)
    /\ value \in Trees
    /\ source = value
    /\ passes = 0
    /\ dispatched = None
    /\ pending = << <<>> >>
    /\ search = NoSearch
    /\ LockIdle

TraversalNext ==
    \/ VisitObject
    \/ VisitArray
    \/ VisitPrimitive

\* A call that can run does run.
TraversalSpec ==
    TraversalInit /\ [][TraversalNext]_vars /\ WF_vars(TraversalNext)

\* C23: optimize terminates on every finite JSON value, the empty object, the
\* empty array, primitives and nested trees included: every call of
\* optimize_recursive returns, and the value is then the optimized one.
C23_Terminates ==
    <>(pending = <<>> /\ value = optimize_recursive(optimizer, source))

\* All calls have returned on a nested tree that they changed.
C23_Witness ==
    /\ pending = <<>>
    /\ source = JObj([k |-> JArr(<< JStr(""),
                                    JObj([self |-> JStr("x"), k |-> JStr("")]) >>),
                      self |-> EmptyObj])
    /\ value = JObj([k |-> JArr(<< JStr(""), EmptyObj >>)])

\* The lists of at most MaxNames of the keys of the trees.
ShortLists == UNION {[1..n -> Keys] : n \in 0..MaxNames}

\* The same names in the opposite order.
Reversed(list) == [i \in 1..Len(list) |-> list[Len(list) + 1 - i]]

\* The lists compared with the optimizer's: the short ones naming the same
\* set, the list reversed, the list with every name twice.
SameSetLists ==
    {l \in ShortLists : {l[i] : i \in 1..Len(l)} = ExcludeSet}
    \cup {Reversed(optimizer.exclude_fields),
          optimizer.exclude_fields \o optimizer.exclude_fields,
          optimizer.exclude_fields \o Reversed(optimizer.exclude_fields)}

\* C24: the exclude list behaves as a set: for every tree, optimizing with a
\* permutation of the list, or with the list holding duplicates, gives what
\* optimizing with the list itself gives.
C24_ExcludeListIsSet ==
    passes = 1 =>
        \A l \in SameSetLists :
            value = optimize_recursive(
                        [exclude_fields |-> l, remove_empty_strings |-> TRUE],
                        source)

\* A list naming k before self and again after it, on a tree that has self
\* without k at its root and both keys below.
C24_Witness ==
    /\ passes = 1
    /\ optimizer.exclude_fields = <<"k", "self", "k">>
    /\ <<"self", "k">> \in SameSetLists
    /\ source = JObj([self |-> JObj([self |-> JNull, k |-> JNum(1)])])
    /\ value = EmptyObj

\* The protocol version an initialize request supplies: the string under
\* protocolVersion of its params, if there is one.
SuppliedVersion(request) ==
    IF /\ IsSome(request.params)
       /\ request.params[1].t = "obj"
       /\ HasString(request.params[1].o, "protocolVersion")
    THEN Some(request.params[1].o["protocolVersion"].s)
    ELSE None

\* C29 as stated: the response to initialize echoes 2025-06-18 when the
\* request supplies a protocol version beginning with "2025", 2024-11-05
\* when it supplies any other protocol version, and 2025-06-18 as the
\* default only when the request supplies no version at all.
C29_VersionNegotiation ==
    [][RoutedTo(line', {"initialize"}) =>
          LET request == Routed(line')[1]
              supplied == SuppliedVersion(request)
              echoed ==
                  IF IsNone(supplied) THEN "2025-06-18"
                  ELSE IF StartsWith2025(supplied[1]) THEN "2025-06-18"
                  ELSE "2024-11-05"
          IN outcome' = Some(Ok(Some(JsonRpcResponse_success(
                            request.id, to_value_InitializeResult(echoed)))))]_vars

\* The reads that return Ok(n) with n > 0: a blank line or a line with text.
SuccessfulReads == {"blank", "json", "garbage"}

\* C30: the transport loop counts consecutive zero-length reads: it goes on
\* reading after the first, second and third and returns on the fourth
\* consecutive one. Every successful read, also of a blank line, sets the
\* count back to zero and keeps the loop running, so the loop ends on a
\* zero-length read only when the three reads before it were zero-length
\* reads too.
C30_EofTermination ==
    /\ [](line.kind \in SuccessfulReads => empty_reads = 0)
    /\ []((pc = "done" /\ line.kind = "eof") => empty_reads = 4)
    /\ [][/\ (line'.kind = "eof") =>
                (/\ empty_reads' = empty_reads + 1
                 /\ (empty_reads' \in 1..3) => (pc' = "reading")
                 /\ (empty_reads' = 4) => (pc' = "done")
                 /\ (pc' = "done") => (line.kind = "eof" /\ empty_reads = 3))
          /\ (line'.kind \in SuccessfulReads) =>
                (empty_reads' = 0 /\ pc' = "reading")]_vars

\* The loop has returned on the fourth consecutive zero-length read, after
\* it had answered one request.
C30_Witness ==
    /\ pc = "done"
    /\ line.kind = "eof"
    /\ empty_reads = 4
    /\ Len(stdout) = 1

\* C31: the transport loop is sequential: a step reads one line and, before
\* the next read, completes its processing and the write of its response.
\* A line whose outcome is a response (also the error envelope of an Err)
\* adds exactly one line to the end of the output, the response of that very
\* line; a blank line and a line whose outcome is "no response" add nothing;
\* what was written before is never changed, so the responses are on the
\* output in the order their requests were read.
C31_Sequential ==
    [][/\ (line'.kind \in {"blank", "eof", "error"}) =>
              (stdout' = stdout /\ outcome' = None)
       /\ (line'.kind \in {"json", "garbage"}) =>
              (/\ IsSome(outcome')
               /\ (outcome'[1].ok /\ IsNone(outcome'[1].val)) => (stdout' = stdout)
               /\ (outcome'[1].ok /\ IsSome(outcome'[1].val)) =>
                      (stdout' = Append(stdout, outcome'[1].val[1]))
               /\ (~outcome'[1].ok) =>
                      (/\ Len(stdout') = Len(stdout) + 1
                       /\ SubSeq(stdout', 1, Len(stdout)) = stdout
                       /\ stdout'[Len(stdout')].id = None))]_vars

\* Two lines were read, initialize and then an unknown method, and their
\* responses are on stdout in that order.
C31_Witness ==
    /\ Len(stdout) = 2
    /\ stdout[1] = JsonRpcResponse_success(
                       Some(JNum(1)),
                       to_value_InitializeResult(PROTOCOL_VERSION_2025))
    /\ RoutedTo(line, {"unknown/thing"})
    /\ stdout[2] = JsonRpcResponse_error(Request.id,
                                         method_not_found("unknown/thing"))

\* The Tool Descriptors of the tools/list results written so far.
ListedTools ==
    UNION {stdout[i].result[1].o["tools"].elems :
             i \in {j \in 1..Len(stdout) :
                       /\ IsSome(stdout[j].result)
                       /\ stdout[j].result[1].t = "obj"
                       /\ "tools" \in DOMAIN stdout[j].result[1].o}}

\* C32: every Tool Descriptor of a tools/list result has an inputSchema of
\* type "object", a non-empty properties map and a required list whose
\* every entry is a key of properties; no descriptor is the "Unknown tool"
\* fallback of the schema mapping, and a result that lists tools lists one
\* descriptor for every registered name.
C32_SchemaInvariant ==
    /\ \A tool \in ListedTools :
          /\ tool.input_schema.schema_type = "object"
          /\ DOMAIN tool.input_schema.properties # {}
          /\ \A i \in 1..Len(tool.input_schema.required) :
                tool.input_schema.required[i] \in DOMAIN tool.input_schema.properties
          /\ tool.description # "Unknown tool"
          /\ tool.name \in RegisteredTools
    /\ ListedTools # {} => {tool.name : tool \in ListedTools} = RegisteredTools

\* tools/list was answered in the Initialized state with the descriptors.
C32_Witness ==
    /\ RoutedTo(line, {"tools/list"})
    /\ AnsweredWithSuccess
    /\ Cardinality(ListedTools) = Cardinality(RegisteredTools)
    /\ \E tool \in ListedTools :
          /\ tool.name = "jira_create_issue"
          /\ tool.input_schema.required = <<"project_key", "summary", "issue_type">>

\* C34: prompts/list and resources/list are answered, in both session
\* states, with a success envelope that carries the request's id and whose
\* result is an object holding an empty array, under prompts respectively
\* resources; the session flag is left as it was.
C34_EmptyLists ==
    [][RoutedTo(line', {"prompts/list", "resources/list"}) =>
          LET request == Routed(line')[1]
              empty == [t |-> "arr", a |-> <<>>]
              response ==
                  [jsonrpc |-> "2.0",
                   result |-> Some(IF request.method = "prompts/list"
                                   THEN [t |-> "obj", o |-> [prompts |-> empty]]
                                   ELSE [t |-> "obj", o |-> [resources |-> empty]]),
                   error |-> None,
                   id |-> request.id]
          IN /\ outcome' = Some(Ok(Some(response)))
             /\ stdout' = Append(stdout, response)
             /\ initialized' = initialized]_vars

\* resources/list with an id was answered with the empty list before the
\* session was initialized.
C34_Witness ==
    /\ RoutedTo(line, {"resources/list"})
    /\ ~initialized
    /\ Request.id = Some(JNum(1))
    /\ Answered(JsonRpcResponse_success(Some(JNum(1)),
                                        JObj([resources |-> JArr(<<>>)])))

\* The messages of the handlers' own argument checks.
MissingMessages ==
    {"Missing issue_key", "Missing comment", "Missing jql", "Missing query",
     "Missing page_id", "Missing transition_id", "Missing project_key",
     "Missing summary", "Missing issue_type", "Missing fields"}

\* The arguments of a call lack a parameter that the tool's schema requires.
LacksRequired(call) ==
    \E i \in 1..Len(ToolSchema(call.name).required) :
        Index(call.arguments, ToolSchema(call.name).required[i]) = JNull

\* C37 as stated: in the Initialized state a tools/call of a registered tool
\* whose arguments lack a parameter that the tool's schema lists as required
\* performs no Backend Operation and is answered with the InternalError
\* envelope (code -32603) that carries the request's id and, unmodified, the
\* handler's own 'Missing ...' message.
C37_MissingArgument ==
    [][(/\ initialized
        /\ RoutedTo(line', {"tools/call"})
        /\ IsSome(Routed(line')[1].params)
        /\ from_value_CallToolRequest(Routed(line')[1].params[1]).ok
        /\ from_value_CallToolRequest(Routed(line')[1].params[1]).val.name
              \in RegisteredTools
        /\ LacksRequired(from_value_CallToolRequest(
                             Routed(line')[1].params[1]).val)) =>
          /\ backend' = None
          /\ \E m \in MissingMessages :
                outcome' = Some(Ok(Some(
                    [jsonrpc |-> "2.0", result |-> None,
                     error |-> Some([code |-> -32603, message |-> m,
                                     data |-> None]),
                     id |-> Routed(line')[1].id])))]_vars

\* The names of an exclude list.
Excluded(list) == {list[i] : i \in 1..Len(list)}

\* C38: the exclude set is fully overridable.  from_config gives the
\* optimizer exactly the configured exclude list when there is one, and
\* exactly the built-in table when there is none.  With a configured list
\* no built-in default is applied: of the members of an optimized object,
\* those named in the configured list are gone, and every other member
\* that is not an empty string is still there (with an empty configured
\* list only empty-string members are removed, and self survives).
C38_ExcludeOverridable ==
    /\ \A cfg \in Configs :
          from_config(cfg).exclude_fields =
              IF IsSome(cfg.response_exclude_fields)
              THEN cfg.response_exclude_fields[1]
              ELSE DEFAULT_EXCLUDE_FIELDS
    /\ optimizer \in {[exclude_fields |-> f, remove_empty_strings |-> TRUE] :
                        f \in {DEFAULT_EXCLUDE_FIELDS, <<>>, <<"k">>,
                               <<"k", "self", "k">>}}
    /\ (passes >= 1 /\ source.t = "obj") =>
          /\ value.t = "obj"
          /\ \A n \in DOMAIN source.o :
                n \in DOMAIN value.o <=>
                    (n \notin Excluded(optimizer.exclude_fields)
                       /\ source.o[n] # JStr(""))

\* With an empty configured list the self member of an object has survived
\* the optimization and its empty-string member has not.
C38_Witness ==
    /\ optimizer.exclude_fields = <<>>
    /\ passes = 1
    /\ source = JObj([self |-> JStr("x"), k |-> JStr("")])
    /\ value = JObj([self |-> JStr("x")])

(***************************************************************************)
(* src/main.rs: tokio::select! over server.run() and signal::ctrl_c().      *)
(* run is followed from await to await: pc is "reading" while it waits in   *)
(* read_line, "processing" from the return of read_line with a non-empty    *)
(* line to the end of the flush of its response, "done" when run has         *)
(* returned and "interrupted" when the ctrl_c branch was taken and the      *)
(* future of run was dropped.                                               *)
(***************************************************************************)
MainInit == Init

\* run: read_line returns a line that is not empty after trimming.
Receive(input) ==
    /\ AtLoop
    /\ pc' = "processing"
    /\ line' = input
    /\ empty_reads' = 0
    /\ outcome' = None
    /\ backend' = None
    /\ UNCHANGED <<initialized, stdout, History, optimizerVars, search, lockVars>>

\* run: process_request returns for the line in flight, and its response,
\* if any, is written and flushed.
Complete(b) ==
    LET p == process_request(initialized, line, b)
        response == ResponseFor(p.ret)
    IN
    /\ pc = "processing"
    /\ initialized' = p.initialized
    /\ stdout' = IF IsSome(response) THEN Append(stdout, response[1]) ELSE stdout
    /\ pc' = "reading"
    /\ outcome' = Some(p.ret)
    /\ backend' = IF "backend" \in p.ev THEN Some(b) ELSE None
    /\ seenInitialize' = (seenInitialize \/ RoutedTo(line, {"initialize"}))
    /\ seenInitialized' =
           (seenInitialized
              \/ RoutedTo(line, {"initialized", "notifications/initialized"}))
    /\ handshake' =
           (handshake
              \/ (seenInitialize
                    /\ RoutedTo(line, {"initialized", "notifications/initialized"})))
    /\ trace' = trace \cup {[op |-> e, initialized |-> initialized] : e \in p.ev}
    /\ UNCHANGED <<line, empty_reads, optimizerVars, search, lockVars>>

\* Mutation of Interrupt: a request in flight is completed and its response
\* written before the process shuts down.
Interrupt_drains ==
    /\ pc \in {"reading", "processing"}
    /\ IF pc = "processing"
       THEN \E b \in BackendFor(line) :
              LET p == process_request(initialized, line, b)
                  response == ResponseFor(p.ret)
              IN /\ stdout' = IF IsSome(response)
                              THEN Append(stdout, response[1]) ELSE stdout
                 /\ initialized' = p.initialized
       ELSE UNCHANGED <<initialized, stdout>>
    /\ pc' = "interrupted"
    /\ UNCHANGED <<empty_reads, line, outcome, backend, History,
                   optimizerVars, search, lockVars>>

\* main: the ctrl_c branch of select! completes first; the future of run is
\* dropped where it is.
Interrupt ==
    /\ pc \in {"reading", "processing"}
    /\ pc' = "interrupted"
    /\ UNCHANGED <<initialized, empty_reads, stdout, line, outcome, backend,
                   History, optimizerVars, search, lockVars>>

MainNext ==
    \/ ReadEof
    \/ ReadError
    \/ ReadBlank
    \/ \E input \in Lines : Receive(input)
    \/ \E b \in BackendFor(line) : Complete(b)
    \/ Interrupt

MainSpec == MainInit /\ [][MainNext]_vars

\* The process has left select!.
ShutDown == pc \in {"done", "interrupted"}

\* C35: shutdown is decided by whichever comes first: the process shuts
\* down either because run returned or because the interrupt arrived, and
\* once it has, the other branch does nothing more.  There is no drain: an
\* interrupt that arrives while a request is in flight ends the process
\* with the output as it was, the response of that request unwritten.
C35_ShutdownRace ==
    /\ [][ShutDown => FALSE]_vars
    /\ [][(pc' = "interrupted") =>
            (/\ pc \in {"reading", "processing"}
             /\ stdout' = stdout
             /\ outcome' = outcome
             /\ initialized' = initialized)]_vars
    /\ [][(pc' = "done") => (pc = "reading" /\ line'.kind \in {"eof", "error"})]_vars

\* The interrupt arrived while a tools/list request with id 1 was in flight
\* in the Initialized state: the process has shut down and nothing was
\* written for the request.
C35_Witness ==
    /\ pc = "interrupted"
    /\ RoutedTo(line, {"tools/list"})
    /\ Request.id = Some(JNum(1))
    /\ initialized
    /\ outcome = None
    /\ stdout = <<>>

(***************************************************************************)
(* Concurrent dispatch: handle_initialized, handle_list_tools and           *)
(* handle_call_tool invoked by independent tasks on one McpServer.  The     *)
(* session flag is behind a tokio RwLock, which serves its waiters in the   *)
(* order of their arrival; a guard is released when the handler returns.    *)
(***************************************************************************)
Tasks == 1..MaxTasks

LockedHandlers == {"initialized", "tools/list", "tools/call"}

NotStarted(handler) ==
    [handler |-> handler, at |-> "start", saw |-> None, result |-> None]

transportVars == <<empty_reads, stdout, pc, line, outcome, backend, History>>

LockInit ==
    /\ ServerIdle
    /\ OptimizerCreated
    /\ search = NoSearch
    /\ tasks \in [Tasks -> {NotStarted(h) : h \in LockedHandlers}]
    /\ lock = FreeLock

\* self.initialized.write() / self.initialized.read(): the task asks for the
\* guard.
Acquire(t) ==
    /\ tasks[t].at = "start"
    /\ tasks' = [tasks EXCEPT ![t].at = "waiting"]
    /\ lock' = [lock EXCEPT !.queue = Append(@, t)]
    /\ UNCHANGED <<initialized, transportVars, optimizerVars, search>>

\* Mutation of Grant: a guard is handed out whatever guards are held.
Grant_unguarded(t) ==
    /\ tasks[t].at = "waiting"
    /\ lock.queue # <<>> /\ Head(lock.queue) = t
    /\ lock' = IF tasks[t].handler = "initialized"
               THEN [lock EXCEPT !.writer = Some(t), !.queue = Tail(@)]
               ELSE [lock EXCEPT !.readers = @ \cup {t}, !.queue = Tail(@)]
    /\ tasks' = [tasks EXCEPT ![t].at = "locked"]
    /\ UNCHANGED <<initialized, transportVars, optimizerVars, search>>

\* .await on write() / read(): the first waiter gets its guard, a write
\* guard when no guard is held, a read guard when no write guard is held.
Grant(t) ==
    /\ tasks[t].at = "waiting"
    /\ lock.queue # <<>> /\ Head(lock.queue) = t
    /\ IsNone(lock.writer)
    /\ tasks[t].handler = "initialized" => lock.readers = {}
    /\ lock' = IF tasks[t].handler = "initialized"
               THEN [lock EXCEPT !.writer = Some(t), !.queue = Tail(@)]
               ELSE [lock EXCEPT !.readers = @ \cup {t}, !.queue = Tail(@)]
    /\ tasks' = [tasks EXCEPT ![t].at = "locked"]
    /\ UNCHANGED <<initialized, transportVars, optimizerVars, search>>

\* handle_initialized: *initialized = true
WriteFlag(t) ==
    /\ tasks[t].handler = "initialized"
    /\ tasks[t].at = "locked"
    /\ initialized' = TRUE
    /\ tasks' = [tasks EXCEPT ![t].at = "written"]
    /\ UNCHANGED <<lock, transportVars, optimizerVars, search>>

\* handle_list_tools, handle_call_tool: if !*initialized
ReadFlag(t) ==
    /\ tasks[t].handler \in {"tools/list", "tools/call"}
    /\ tasks[t].at = "locked"
    /\ tasks' = [tasks EXCEPT ![t].at = "checked", ![t].saw = Some(initialized)]
    /\ UNCHANGED <<initialized, lock, transportVars, optimizerVars, search>>

\* handle_call_tool: self.handler.call_tool(..).await returns; the Backend
\* Operation has terminated.
CallTool(t) ==
    /\ tasks[t].handler = "tools/call"
    /\ tasks[t].at = "checked"
    /\ tasks[t].saw = Some(TRUE)
    /\ tasks' = [tasks EXCEPT ![t].at = "executed"]
    /\ UNCHANGED <<initialized, lock, transportVars, optimizerVars, search>>

\* The handler is at a return.
AtReturn(t) ==
    \/ tasks[t].handler = "initialized" /\ tasks[t].at = "written"
    \/ tasks[t].handler = "tools/list" /\ tasks[t].at = "checked"
    \/ tasks[t].handler = "tools/call" /\ tasks[t].at = "checked"
          /\ tasks[t].saw = Some(FALSE)
    \/ tasks[t].handler = "tools/call" /\ tasks[t].at = "executed"

\* What the handler returns: the "Server not initialized" error when the
\* flag it read was false.
ResultOf(t) ==
    IF tasks[t].saw = Some(FALSE) THEN "Server not initialized" ELSE "success"

\* Mutation of Return: handle_call_tool returns without giving its read
\* guard back.
Return_keeps_guard(t) ==
    /\ AtReturn(t)
    /\ tasks' = [tasks EXCEPT ![t].at = "done", ![t].result = Some(ResultOf(t))]
    /\ lock' = IF tasks[t].handler = "tools/call" THEN lock
               ELSE [lock EXCEPT !.readers = @ \ {t},
                                 !.writer = IF @ = Some(t) THEN None ELSE @]
    /\ UNCHANGED <<initialized, transportVars, optimizerVars, search>>

\* The handler returns and its guard is dropped.
Return(t) ==
    /\ AtReturn(t)
    /\ tasks' = [tasks EXCEPT ![t].at = "done", ![t].result = Some(ResultOf(t))]
    /\ lock' = [lock EXCEPT !.readers = @ \ {t},
                            !.writer = IF @ = Some(t) THEN None ELSE @]
    /\ UNCHANGED <<initialized, transportVars, optimizerVars, search>>

LockNext ==
    \E t \in Tasks :
        \/ Acquire(t)
        \/ Grant(t)
        \/ WriteFlag(t)
        \/ ReadFlag(t)
        \/ CallTool(t)
        \/ Return(t)

\* The runtime keeps polling a task that can go on, and every Backend
\* Operation terminates.
LockSpec == LockInit /\ [][LockNext]_vars /\ WF_vars(LockNext)

\* The task holds the guard its handler asked for.
HoldsGuard(t) ==
    IF tasks[t].handler = "initialized"
    THEN lock.writer = Some(t) /\ lock.readers = {}
    ELSE t \in lock.readers /\ IsNone(lock.writer)

\* A handle_initialized has completed its write of the flag.
WriteCompleted ==
    \E w \in Tasks : /\ tasks[w].handler = "initialized"
                      /\ tasks[w].at \in {"written", "done"}

\* C36: under concurrent dispatch the session flag is written only by a
\* task that holds the write guard alone and read only by a task that
\* holds a read guard while no write guard is held; readers share the lock,
\* and a tools/list or tools/call fails with "Server not initialized" only
\* when the flag it read was false, never because of another reader; every
\* flag read that happens after a handle_initialized has completed its
\* write observes Initialized.
C36_FlagUnderLock ==
    /\ [](IsSome(lock.writer) => lock.readers = {})
    /\ [](\A t \in Tasks :
            tasks[t].result = Some("Server not initialized") =>
                tasks[t].saw = Some(FALSE))
    /\ [][/\ initialized' # initialized =>
               \E w \in Tasks : /\ HoldsGuard(w)
                                /\ tasks[w].handler = "initialized"
                                /\ tasks'[w].at = "written"
           /\ \A t \in Tasks :
                 tasks'[t].saw # tasks[t].saw =>
                    /\ HoldsGuard(t)
                    /\ tasks'[t].saw = Some(initialized)
                    /\ WriteCompleted => tasks'[t].saw = Some(TRUE)]_vars

\* After the handle_initialized of task 1 has returned, the tools/list of
\* task 2 and the tools/call of task 3 hold read guards at the same time and
\* both have read the flag as Initialized.
C36_Witness ==
    /\ tasks[1].handler = "initialized" /\ tasks[1].at = "done"
    /\ tasks[2].handler = "tools/list" /\ tasks[2].at = "checked"
    /\ tasks[3].handler = "tools/call" /\ tasks[3].at = "checked"
    /\ lock.readers = {2, 3}
    /\ tasks[2].saw = Some(TRUE)
    /\ tasks[3].saw = Some(TRUE)

\* The tools/call of the task is in flight: from its flag check to its
\* return.
CallInFlight(t) ==
    tasks[t].handler = "tools/call" /\ tasks[t].at \in {"checked", "executed"}

\* C39: under concurrent dispatch no interleaving deadlocks on the session
\* lock.  handle_call_tool keeps its read guard from its flag check to its
\* return, so no handle_initialized holds the write guard while a tool call
\* is in flight: it waits for the calls.  Every Backend Operation
\* terminating, every invocation of handle_initialized, tools/list and
\* tools/call eventually completes.
C39_NoDeadlock ==
    /\ [](\A t \in Tasks : CallInFlight(t) => t \in lock.readers)
    /\ []((\E t \in Tasks : CallInFlight(t)) => IsNone(lock.writer))
    /\ <>(\A t \in Tasks : tasks[t].at = "done")

\* The tools/call of task 2 is executing under its read guard, after the
\* handle_initialized of task 1, and the handle_initialized of task 3 waits
\* for the lock.
C39_Witness ==
    /\ tasks[1].handler = "initialized" /\ tasks[1].at = "done"
    /\ tasks[2].handler = "tools/call" /\ tasks[2].at = "checked"
    /\ tasks[2].saw = Some(TRUE)
    /\ tasks[3].handler = "initialized" /\ tasks[3].at = "waiting"
    /\ lock.readers = {2}
    /\ lock.queue = <<3>>

(***************************************************************************)
(* The content envelope of call_tool, for every value a ToolHandler's       *)
(* execute may return.                                                      *)
(***************************************************************************)
ContentInit ==
    /\ ServerIdle
    /\ optimizer = from_config(config)
    /\ value \in Trees
    /\ source = value
    /\ passes = 0
    /\ dispatched = None
    /\ pending = <<>>
    /\ search = NoSearch
    /\ LockIdle

\* call_tool from "Convert result to tool content" on: the result is wrapped
\* and returned.
ConvertResult ==
    /\ dispatched = None
    /\ dispatched' = Some([name |-> "content",
                           executed |-> Ok(value),
                           returned |-> Ok(CallToolContent(value))])
    /\ UNCHANGED <<optimizer, value, source, passes, pending, search, lockVars, serverVars>>

ContentNext == ConvertResult

ContentSpec == ContentInit /\ [][ContentNext]_vars

\* C33: a successful call_tool returns an envelope whose content holds
\* exactly one item, of type text: its text is the JSON result itself when
\* the result is a string, and the pretty-printed serialization of the
\* result otherwise.
C33_OneTextItem ==
    IsSome(dispatched) =>
        LET envelope == dispatched[1].returned.val
            items == envelope.o["content"].a
        IN /\ dispatched[1].returned.ok
           /\ envelope.t = "obj"
           /\ DOMAIN envelope.o = {"content"}
           /\ Len(items) = 1
           /\ DOMAIN items[1].o = {"type", "text"}
           /\ items[1].o["type"] = JStr("text")
           /\ value.t = "str" => items[1].o["text"] = value
           /\ value.t # "str" =>
                 items[1].o["text"] = [t |-> "str", pretty |-> value]

\* A result that is the string x was wrapped: the text is x, without the
\* quotes of its serialization.
C33_Witness ==
    /\ IsSome(dispatched)
    /\ value = JStr("x")
    /\ dispatched[1].returned =
           Ok(JObj([content |-> JArr(<< JObj([type |-> JStr("text"),
                                              text |-> JStr("x")]) >>)]))

(***************************************************************************)
(* src/tools/jira/field_filtering.rs: the fields a jira_search requests.   *)
(***************************************************************************)
DEFAULT_SEARCH_FIELDS ==
    << "key", "summary", "status", "priority", "issuetype",
       "assignee", "reporter", "creator",
       "created", "updated", "duedate", "resolutiondate",
       "project", "labels", "components",
       "parent", "subtasks" >>

\* Mutation of resolve_search_fields: the configured override list is looked
\* at before the caller's list.
resolve_search_fields_override_first(api_fields, cfg) ==
    IF IsSome(cfg.jira_search_default_fields)
    THEN cfg.jira_search_default_fields[1]
    ELSE IF IsSome(api_fields) /\ api_fields[1] # <<>>
    THEN api_fields[1]
    ELSE IF cfg.jira_search_custom_fields # <<>>
    THEN DEFAULT_SEARCH_FIELDS \o cfg.jira_search_custom_fields
    ELSE DEFAULT_SEARCH_FIELDS

\* Mutation of resolve_search_fields: the custom fields are appended to the
\* override list as well.
resolve_search_fields_override_extended(api_fields, cfg) ==
    IF IsSome(api_fields) /\ api_fields[1] # <<>>
    THEN api_fields[1]
    ELSE IF IsSome(cfg.jira_search_default_fields)
    THEN cfg.jira_search_default_fields[1] \o cfg.jira_search_custom_fields
    ELSE IF cfg.jira_search_custom_fields # <<>>
    THEN DEFAULT_SEARCH_FIELDS \o cfg.jira_search_custom_fields
    ELSE DEFAULT_SEARCH_FIELDS

\* resolve_search_fields
resolve_search_fields(api_fields, cfg) ==
    IF IsSome(api_fields) /\ api_fields[1] # <<>>
    THEN api_fields[1]
    ELSE IF IsSome(cfg.jira_search_default_fields)
    THEN cfg.jira_search_default_fields[1]
    ELSE IF cfg.jira_search_custom_fields # <<>>
    THEN DEFAULT_SEARCH_FIELDS \o cfg.jira_search_custom_fields
    ELSE DEFAULT_SEARCH_FIELDS

\* The fields argument of a call: absent, empty, one name, two names, a name
\* twice.
ApiFieldLists ==
    {None, Some(<<>>), Some(<<"key">>), Some(<<"summary", "key">>),
     Some(<<"customfield_1", "customfield_1">>)}

\* Config.jira_search_default_fields: JIRA_SEARCH_DEFAULT_FIELDS unset, set
\* to nothing, to one name, to names of which one is repeated.
DefaultFieldOverrides ==
    {None, Some(<<>>), Some(<<"key">>), Some(<<"description", "key", "key">>)}

\* Config.jira_search_custom_fields: JIRA_SEARCH_CUSTOM_FIELDS unset, one
\* name, two names, a name twice, a name of the built-in list.
CustomFieldLists ==
    {<<>>, <<"customfield_1">>, <<"customfield_1", "customfield_2">>,
     <<"customfield_1", "customfield_1">>, <<"summary">>}

FieldsInit ==
    /\ ServerIdle
    /\ OptimizerCreated
    /\ search \in [api_fields : ApiFieldLists,
                    jira_search_default_fields : DefaultFieldOverrides,
                    jira_search_custom_fields : CustomFieldLists,
                    resolved : {None}]
    /\ LockIdle

\* SearchHandler::execute: let fields = resolve_search_fields(api_fields, config)
ResolveSearchFields ==
    /\ search.resolved = None
    /\ search' = [search EXCEPT
                     !.resolved = Some(resolve_search_fields(search.api_fields,
                                                             search))]
    /\ UNCHANGED <<serverVars, optimizerVars, lockVars>>

FieldsNext == ResolveSearchFields

FieldsSpec == FieldsInit /\ [][FieldsNext]_vars

(***************************************************************************)
(* Properties of the field resolution.                                     *)
(***************************************************************************)
\* The caller supplied a field list: one that is present and not empty.
CallerSupplied == IsSome(search.api_fields) /\ search.api_fields[1] # <<>>

\* C26: priority 1: when the caller supplies a non-empty field list, exactly
\* that list is returned whatever the override and the custom fields are; a
\* caller list that is absent or empty counts as not supplied, and the result
\* is the one of the next priorities.
C26_CallerListFirst ==
    IsSome(search.resolved) =>
        /\ CallerSupplied => search.resolved[1] = search.api_fields[1]
        /\ ~CallerSupplied =>
              search.resolved[1] =
                  IF IsSome(search.jira_search_default_fields)
                  THEN search.jira_search_default_fields[1]
                  ELSE DEFAULT_SEARCH_FIELDS \o search.jira_search_custom_fields

\* The caller's two names were returned although an override list and custom
\* fields are configured.
C26_Witness ==
    /\ search.api_fields = Some(<<"summary", "key">>)
    /\ search.jira_search_default_fields = Some(<<"key">>)
    /\ search.jira_search_custom_fields = <<"customfield_1">>
    /\ search.resolved = Some(<<"summary", "key">>)

\* C27: priority 2: when the caller supplies no field list and an override
\* list is configured, exactly the override list is returned: the built-in
\* defaults are not included and the custom fields not appended.
C27_OverrideReplaces ==
    (IsSome(search.resolved) /\ ~CallerSupplied
        /\ IsSome(search.jira_search_default_fields)) =>
        search.resolved[1] = search.jira_search_default_fields[1]

\* No caller list, an override of one name and two custom fields.
C27_Witness ==
    /\ search.api_fields = None
    /\ search.jira_search_default_fields = Some(<<"key">>)
    /\ search.jira_search_custom_fields = <<"customfield_1", "customfield_2">>
    /\ search.resolved = Some(<<"key">>)

\* The names of a list, and whether each occurs once.
Names(list) == {list[i] : i \in 1..Len(list)}
NoRepeats(list) == Cardinality(Names(list)) = Len(list)

\* C28 as stated: priority 3: with neither a caller list nor an override list
\* the result is the built-in default list followed by the custom fields,
\* de-duplicated: every name occurs exactly once, also when a custom field
\* is one of the built-in defaults or is configured twice.
C28_DefaultsPlusCustomOnce ==
    (IsSome(search.resolved) /\ ~CallerSupplied
        /\ IsNone(search.jira_search_default_fields)) =>
        /\ SubSeq(search.resolved[1], 1, Len(DEFAULT_SEARCH_FIELDS))
               = DEFAULT_SEARCH_FIELDS
        /\ Names(search.resolved[1]) =
               Names(DEFAULT_SEARCH_FIELDS) \cup Names(search.jira_search_custom_fields)
        /\ NoRepeats(search.resolved[1])

====
